---- MODULE Spec2Model ----
(***************************************************************************)
(* Offline-first synchronisation core of the task manager:                 *)
(*   SyncEngine   (src/js/config.js)                                       *)
(*   OfflineQueue (src/js/offline-queue.js)                                *)
(*   DB           (src/js/db.js)                                           *)
(*                                                                         *)
(* JavaScript runs one task at a time; a function gives up control only at *)
(* an `await`.  Every action below is one such run: it resumes a suspended *)
(* function (or starts a handler), executes its synchronous code and stops *)
(* at the next `await`.  IndexedDB executes the requests on one object     *)
(* store in the order in which they were issued, so the effect of a        *)
(* request (and the result of a read) is fixed when it is issued; the      *)
(* function that awaits it resumes in a later action.                      *)
(***************************************************************************)
EXTENDS Integers, Sequences, FiniteSets, TLC

\* ---------------------------------------------------------------- bounds
\* Spec: mutations, network events and replay passes
MaxOps == 2        \* operations ever enqueued (keys handed out by syncQueue)
MaxCalls == 1      \* DB.saveTask / DB.removeTask calls suspended at once
MaxPasses == 1     \* processQueue runs suspended at once
\* SpecBusy: as Spec, with two handlers running at once
MaxBusyOps == 2    \* operations ever enqueued
MaxBusyCalls == 2  \* DB.saveTask / DB.removeTask calls suspended at once
MaxBusyPasses == 2 \* processQueue runs suspended at once
\* SpecReplay: network events and replay passes over a stored queue
MaxStored == 3     \* entries an earlier session left in syncQueue
MaxReplayPasses == 2  \* processQueue runs suspended at once
\* SpecNet: the network monitor over a stored queue
MaxPlatformEvents == 2  \* online/offline events queued and not yet delivered
MaxNetPasses == 1  \* processQueue runs suspended at once
\* SpecOffline: replay passes over a stored queue, network events
MaxOfflineStored == 2  \* entries the queue holds at the start
MaxOfflinePasses == 1  \* processQueue runs suspended at once
\* SpecFaulty: replay passes over a stored queue whose reads may fail
MaxFaultyStored == 1  \* entries the queue holds at the start
MaxFaultyPasses == 2  \* processQueue runs suspended at once
\* SpecPoll: the 5 s poll over a stored queue, no platform event delivered
MaxPollPasses == 1  \* processQueue runs suspended at once

MaxNoRemoteStored == 1  \* entries the queue holds at the start
MaxNoRemoteOps == 3     \* operations ever enqueued
MaxNoRemoteCalls == 1   \* DB.saveTask / DB.removeTask calls suspended at once
MaxNoRemotePasses == 1  \* processQueue runs suspended at once
\* SpecStartup: SyncEngine.init and the syncWithCloud run it starts
MaxPolls == 2      \* polls of waitForFirebase that fit into its 5000 ms
\* SpecPayload: as Spec, with a clock that advances between saves
MaxPayloadOps == 2     \* operations ever enqueued
MaxPayloadCalls == 1   \* DB.saveTask / DB.removeTask calls suspended at once
MaxPayloadPasses == 1  \* processQueue runs suspended at once
\* SpecQueue: the queue store alone
MaxAdds == 3       \* largest key syncQueue hands out
\* SpecSync: mutations, queue store failures, replay passes and merges
MaxSyncOps == 1    \* operations ever enqueued
MaxSyncPasses == 2 \* processQueue runs suspended at once
MaxSyncTime == 3   \* largest updated_at value
MaxMerges == 1     \* mergeCloudTasks runs suspended at once
\* SpecMerge: merges alone
MaxMergeTime == 2  \* largest updated_at value
\* SpecRestart: merges after a restart with a stored queue
MaxListenerMerges == 2  \* mergeCloudTasks runs suspended at once

MaxStorageTime == 2   \* largest updated_at value of a stored record
MaxStorageCalls == 1  \* mergeStorages / splitStorages calls suspended at once

MaxRestartStored == 2  \* entries the queue holds at the restart
MaxRestartMerges == 1  \* mergeCloudTasks runs suspended at once

IdOrder == <<"A", "B">>
TaskIds == {IdOrder[i] : i \in DOMAIN IdOrder}

\* ---------------------------------------------------------------- values
NoTask == [id |-> "-", updated_at |-> 0, by |-> "-"]
Tasks(maxTime) == [id : TaskIds, updated_at : 1..maxTime, by : {"me", "other"}]

\* the possible contents of a store of tasks, keyed by id
Stores(maxTime, authors) ==
    {st \in [TaskIds -> {NoTask} \cup Tasks(maxTime)] :
        \A x \in TaskIds : st[x] # NoTask => st[x].id = x /\ st[x].by \in authors}

\* the engine as deployed, with the credentials of FIREBASE_CONFIG filled in
FIREBASE_ENABLED == TRUE

EVENTS == [SYNC_STARTED |-> "sync:started",
           SYNC_COMPLETED |-> "sync:completed",
           SYNC_ERROR |-> "sync:error",
           STATUS_CHANGED |-> "sync:status-changed",
           TASKS_SYNCED |-> "sync:tasks-synced"]

Event(name, arg) == [name |-> name, arg |-> arg]

VARIABLES
    isOnline,               \* SyncEngine.isOnline
    navOnline,              \* navigator.onLine
    firebaseDb,             \* SyncEngine.firebaseDb # null
    isSyncing,              \* SyncEngine.isSyncing
    locallyDeletedTaskIds,  \* SyncEngine.locallyDeletedTaskIds
    queue,                  \* object store syncQueue, in key order
    nextId,                 \* key generator of syncQueue
    local,                  \* object store tasks: id -> record or NoTask
    remote,                 \* remote collection tasks: id -> record or NoTask
    clock,                  \* Date.now() of this device
    calls,                  \* suspended DB.saveTask / DB.removeTask calls
    passes,                 \* suspended processQueue runs
    inflight,               \* queue keys whose remote call is unanswered
    merges,                 \* suspended mergeCloudTasks runs
    emitted,                \* events dispatched by the last action
    settled,                \* DB.saveTask / DB.removeTask promises settled by it
    enqueuedOffline,        \* history: keys enqueued since isOnline became false
    issuedKeys,             \* history: keys syncQueue has handed out
    platformEvents,         \* online/offline events the platform has queued
    published,              \* history: payload of the last status-changed event
    initPc,                 \* where SyncEngine.init stands
    sdkLoaded,              \* typeof window.firebase !== 'undefined'
    polls,                  \* iterations waitForFirebase has made
    startupSync,            \* the syncWithCloud run that init started
    storage1,               \* object store tasks_storage1: id -> record or NoTask
    storage2,               \* object store tasks_storage2: id -> record or NoTask
    savedMergeState,        \* localStorage['mergeState']
    savedStorage,           \* localStorage['currentStorage']
    currentMergeState,      \* StorageManager.currentMergeState
    currentStorage,         \* StorageManager.currentStorage
    currentStoreName,       \* DB.currentStoreName
    dbOpened,               \* DB.db # null
    appPc,                  \* where App.init stands
    storageCalls,           \* suspended mergeStorages / splitStorages calls
    returned                \* what the last mergeStorages / splitStorages call returned

vars == <<isOnline, navOnline, firebaseDb, isSyncing, locallyDeletedTaskIds,
          queue, nextId, local, remote, clock, calls, passes, inflight,
          merges, emitted, settled, enqueuedOffline, issuedKeys, platformEvents,
          published, initPc, sdkLoaded, polls, startupSync, storage1,
          storage2, savedMergeState, savedStorage, currentMergeState,
          currentStorage, currentStoreName, dbOpened, appPc, storageCalls,
          returned>>

\* what only the StorageManager and the two-storage DB module change
storageVars == <<storage1, storage2, savedMergeState, savedStorage,
                 currentMergeState, currentStorage, currentStoreName,
                 dbOpened, appPc, storageCalls, returned>>

\* what only SyncEngine.init and the run of syncWithCloud it starts change
startupVars == <<initPc, sdkLoaded, polls, startupSync>>

\* ------------------------------------------------------- generic helpers
\* a sequence back to front (used to state a wrong read order)
RECURSIVE Reverse(_)
Reverse(s) == IF s = <<>> THEN <<>> ELSE Reverse(Tail(s)) \o <<Head(s)>>

Range(s) == {s[i] : i \in DOMAIN s}

\* the keys of the entries of syncQueue, in the order of the store
Keys(q) == [k \in DOMAIN q |-> q[k].id]

\* the records of a store, in key order (IDBObjectStore.getAll)
StoreValues(store) ==
    LET present(i) == store[IdOrder[i]] # NoTask
        RECURSIVE from(_)
        from(i) == IF i > Len(IdOrder) THEN <<>>
                   ELSE IF present(i) THEN <<store[IdOrder[i]]>> \o from(i + 1)
                   ELSE from(i + 1)
    IN from(1)

IdsOf(ts) == {ts[i].id : i \in DOMAIN ts}

\* ------------------------------------------------- OfflineQueue (syncQueue)
Operation(type, taskId, task) == [type |-> type, taskId |-> taskId, task |-> task]

\* store.add on a store with keyPath 'id' and autoIncrement
AddOperation(q, key, operation) ==
    Append(q, [id |-> key, type |-> operation.type,
               taskId |-> operation.taskId, task |-> operation.task])

GetAllOperationsReversed(q) == Reverse(q)

\* store.getAll(): every entry, ascending by key
GetAllOperations(q) == q

\* store.delete(operationId)
RemoveOperation(q, operationId) == SelectSeq(q, LAMBDA o : o.id # operationId)

GetCount(q) == Len(GetAllOperations(q))

\* ---------------------------------------------------------- DB (tasks store)
GetAllTasks(store) == StoreValues(store)

AddTask(store, task) == [store EXCEPT ![task.id] = task]

DeleteTask(store, taskId) == [store EXCEPT ![taskId] = NoTask]

\* ------------------------------------------------------------ SyncEngine
\* pc: the await the run is suspended at; ops: the array it iterates; idx:
\* the position of the loop.  snapshot, issued and failed record what the
\* run was given and did: the store's content when getAll was issued, the
\* keys whose remote call was issued, in order, and those that failed.
\* They are dropped when the loop ends; remaining is the count the final
\* getCount read.
NewPass(q) == [pc |-> "getAllOperations", ops |-> GetAllOperations(q),
               idx |-> 0, snapshot |-> q, issued |-> <<>>, failed |-> {},
               remaining |-> 0]

\* The synchronous head of processQueue, run by whoever calls it.  `online`
\* is the value of isOnline the call sees, `ev` the events its caller has
\* dispatched in the same run.  The call ends at `await getAllOperations()`.
PassStartsUnguarded(online) == online /\ firebaseDb

PassStartsOffline(online) == ~isSyncing /\ firebaseDb

PassStartsWithoutRemote(online) == online /\ ~isSyncing

PassStarts(online) == online /\ ~isSyncing /\ firebaseDb

ProcessQueue(online, ev) ==
    IF PassStarts(online)
    THEN /\ isSyncing' = TRUE
         /\ passes' = Append(passes, NewPass(queue))
         /\ emitted' = ev \o <<Event(EVENTS.SYNC_STARTED, 0)>>
    ELSE /\ UNCHANGED <<isSyncing, passes>>
         /\ emitted' = ev

\* ----------------------------------------------------------------- Init
\* a syncWithCloud run: pc is where its inner function stands ("none":
\* never started, "once": waiting for the snapshot, "merge": inside
\* mergeCloudTasks, "done": returned), timer the state of its 10 s timeout,
\* merge the mergeCloudTasks run; late is history: the snapshot arrived
\* after the timer had fired
NoSync == [pc |-> "none", timer |-> "none", merge |-> <<>>, late |-> FALSE]

\* the engine over the one tasks store of db.js: no StorageManager is
\* loaded and the two-storage DB module is not in the page
OneTasksStore ==
    /\ storage1 = [x \in TaskIds |-> NoTask]
    /\ storage2 = [x \in TaskIds |-> NoTask]
    /\ savedMergeState = "none"
    /\ savedStorage = "none"
    /\ currentMergeState = "null"
    /\ currentStorage = "null"
    /\ currentStoreName = "null"
    /\ dbOpened = FALSE
    /\ appPc = "none"
    /\ storageCalls = <<>>
    /\ returned = "none"

\* init has returned, the SDK was there, no startup fetch is under way, the
\* platform has no event queued and nothing has been published
Started ==
    /\ platformEvents = <<>>
    /\ published = <<>>
    /\ initPc = "returned"
    /\ sdkLoaded = TRUE
    /\ polls = 0
    /\ startupSync = NoSync

Init ==
    /\ navOnline \in BOOLEAN
    /\ isOnline = navOnline
    /\ firebaseDb = TRUE
    /\ isSyncing = FALSE
    /\ locallyDeletedTaskIds = {}
    /\ queue = <<>>
    /\ nextId = 1
    /\ local = [x \in TaskIds |-> NoTask]
    /\ remote = [x \in TaskIds |-> NoTask]
    /\ clock = 1
    /\ calls = <<>>
    /\ passes = <<>>
    /\ inflight = {}
    /\ merges = <<>>
    /\ emitted = <<>>
    /\ settled = <<>>
    /\ enqueuedOffline = {}
    /\ issuedKeys = Range(Keys(queue))
    /\ Started
    /\ OneTasksStore

\* --------------------------------------------- DB.saveTask / DB.removeTask
RemoveAt(s, i) == SubSeq(s, 1, i - 1) \o SubSeq(s, i + 1, Len(s))

\* A suspended call: fn and pc say where it waits, task is the object the
\* handler passed, key the key of its queue entry once the add is issued.
\* an id no store, queue entry or suspended function has seen (a new UUID)
Fresh(x) ==
    /\ local[x] = NoTask /\ remote[x] = NoTask
    /\ x \notin locallyDeletedTaskIds
    /\ \A i \in DOMAIN queue : queue[i].taskId # x
    /\ \A i \in DOMAIN calls : calls[i].taskId # x
    /\ \A i \in DOMAIN merges : x \notin IdsOf(merges[i].cloudTasks)

\* what a handler's write to its task object does to the entries of
\* syncQueue made from that object, were they references to it
AfterMutationShared(q, task) ==
    [k \in DOMAIN q |->
        IF q[k].type = "save" /\ q[k].taskId = task.id
        THEN [q[k] EXCEPT !.task = task] ELSE q[k]]

\* what it does to them: store.add has stored a structured clone, the
\* entries are no references to the object
AfterMutation(q, task) == q

\* A handler stamps the task (Task.updateTimestamp) and calls DB.saveTask,
\* which issues the put and suspends at `await addTask(task)`.
SaveTask(x, now) ==
    /\ UNCHANGED <<storageVars, startupVars, platformEvents, published>>
    /\ settled' = <<>> /\ UNCHANGED <<enqueuedOffline, issuedKeys>>
    /\ local[x] # NoTask \/ Fresh(x)
    /\ now >= clock
    /\ clock' = now
    /\ LET task == [id |-> x, updated_at |-> now, by |-> "me"]
       IN /\ local' = AddTask(local, task)
          /\ queue' = AfterMutation(queue, task)
          /\ calls' = Append(calls, [fn |-> "saveTask", pc |-> "addTask",
                                     taskId |-> x, task |-> task,
                                     key |-> 0])
    /\ emitted' = <<>>
    /\ UNCHANGED <<isOnline, navOnline, firebaseDb, isSyncing,
                   locallyDeletedTaskIds, nextId, remote, passes,
                   inflight, merges>>

\* the confirm dialog of a delete stays open, with its callback, until the
\* callback has run to its end: a second click calls DB.removeTask again
ConfirmStillOpen(x) ==
    \E i \in DOMAIN calls : calls[i].fn = "removeTask" /\ calls[i].taskId = x

\* DB.removeTask issues the delete and suspends at `await deleteTask(taskId)`.
RemoveTask(x) ==
    /\ UNCHANGED <<storageVars, startupVars, platformEvents, published>>
    /\ settled' = <<>> /\ UNCHANGED <<enqueuedOffline, issuedKeys>>
    /\ local[x] # NoTask \/ ConfirmStillOpen(x)
    /\ local' = DeleteTask(local, x)
    /\ calls' = Append(calls, [fn |-> "removeTask", pc |-> "deleteTask",
                               taskId |-> x, task |-> NoTask, key |-> 0])
    /\ emitted' = <<>>
    /\ UNCHANGED <<isOnline, navOnline, firebaseDb, isSyncing,
                   locallyDeletedTaskIds, queue, nextId, remote, clock, passes,
                   inflight, merges>>

\* queueOperation up to `await OfflineQueue.addOperation(...)`: the
\* tombstone of a delete, then the add request.
MarkDeleted(type, taskId) ==
    IF type = "delete" THEN locallyDeletedTaskIds \cup {taskId}
    ELSE locallyDeletedTaskIds

PassesAfterAddShared(ps, q) ==
    [k \in DOMAIN ps |->
        IF ps[k].pc \in {"getAllOperations", "remote", "removeOperation"}
        THEN [ps[k] EXCEPT !.ops = Append(ps[k].ops, q[Len(q)])]
        ELSE ps[k]]

\* the runs of processQueue after an add: `operations` is the array the
\* run's own getAll request produced, an add to the store does not reach it
PassesAfterAdd(ps, q) == ps

\* DB.saveTask / DB.removeTask resume after the tasks store answered and
\* call SyncEngine.queueOperation.
QueueOperation(i) ==
    /\ UNCHANGED <<storageVars, startupVars, platformEvents, published>>
    /\ settled' = <<>>
    /\ enqueuedOffline' = IF isOnline THEN enqueuedOffline
                          ELSE enqueuedOffline \cup {nextId}
    /\ issuedKeys' = issuedKeys \cup {nextId}
    /\ i \in DOMAIN calls
    /\ calls[i].pc \in {"addTask", "deleteTask"}
    /\ FIREBASE_ENABLED
    /\ LET c == calls[i]
           type == IF c.fn = "saveTask" THEN "save" ELSE "delete"
       IN /\ locallyDeletedTaskIds' = MarkDeleted(type, c.taskId)
          /\ queue' = AddOperation(queue, nextId,
                                   Operation(type, c.taskId, c.task))
          /\ nextId' = nextId + 1
          /\ calls' = [calls EXCEPT ![i].pc = "addOperation",
                                    ![i].key = nextId]
    /\ passes' = PassesAfterAdd(passes, queue')
    /\ emitted' = <<>>
    /\ UNCHANGED <<isOnline, navOnline, firebaseDb, isSyncing, local, remote,
                   clock, inflight, merges>>

\* queueOperation resumes after the add: `if (isOnline) processQueue()`,
\* not awaited, and returns to DB.saveTask / DB.removeTask, which return.
AfterTriggerAwaited(started) == IF started THEN "processQueue" ELSE "returned"

\* AfterTrigger(started): where the caller is once processQueue() has been
\* called: the call is not awaited, the caller returns.
AfterTrigger(started) == "returned"

\* the promise of DB.saveTask / DB.removeTask call c settles
Settled(c, how) ==
    [fn |-> c.fn, taskId |-> c.taskId, key |-> c.key, how |-> how]

QueueOperationDone(i) ==
    /\ i \in DOMAIN calls
    /\ calls[i].pc = "addOperation"
    /\ calls' = IF AfterTrigger(PassStarts(isOnline)) = "returned"
                THEN RemoveAt(calls, i)
                ELSE [calls EXCEPT ![i].pc = "processQueue"]
    /\ UNCHANGED <<storageVars, startupVars, platformEvents, published>>
    /\ settled' = IF AfterTrigger(PassStarts(isOnline)) = "returned"
                  THEN <<Settled(calls[i], "fulfilled")>>
                  ELSE <<>>
    /\ ProcessQueue(isOnline, <<>>)
    /\ UNCHANGED <<enqueuedOffline, issuedKeys, isOnline, navOnline, firebaseDb, locallyDeletedTaskIds,
                   queue, nextId, local, remote, clock, inflight,
                   merges>>

\* queueOperation as above, but the queue store is unavailable or rejects
\* the add (addOperation throws without a db, or request.onerror fires):
\* the tombstone of a delete is set, nothing is stored, and the promise
\* queueOperation awaits is rejected.
QueueOperationFails(i) ==
    /\ UNCHANGED <<storageVars, startupVars, platformEvents, published>>
    /\ settled' = <<>> /\ UNCHANGED <<enqueuedOffline, issuedKeys>>
    /\ i \in DOMAIN calls
    /\ calls[i].pc \in {"addTask", "deleteTask"}
    /\ FIREBASE_ENABLED
    /\ locallyDeletedTaskIds' =
          MarkDeleted(IF calls[i].fn = "saveTask" THEN "save" ELSE "delete",
                      calls[i].taskId)
    /\ calls' = [calls EXCEPT ![i].pc = "addOperationFailed"]
    /\ emitted' = <<>>
    /\ UNCHANGED <<isOnline, navOnline, firebaseDb, isSyncing, queue, nextId,
                   local, remote, clock, passes, inflight, merges>>

\* how DB.saveTask / DB.removeTask settles once the catch of queueOperation
\* has run: the catch dispatches sync:error and does not rethrow, so
\* queueOperation returns, and so does its caller
AfterCatch == "fulfilled"

\* queueOperation resumes in its catch block
QueueOperationCaught(i) ==
    /\ i \in DOMAIN calls
    /\ calls[i].pc = "addOperationFailed"
    /\ emitted' = <<Event(EVENTS.SYNC_ERROR, 0)>>
    /\ calls' = RemoveAt(calls, i)
    /\ UNCHANGED <<storageVars, startupVars, platformEvents, published>>
    /\ settled' = <<Settled(calls[i], AfterCatch)>>
    /\ UNCHANGED <<enqueuedOffline, issuedKeys, isOnline, navOnline, firebaseDb, isSyncing,
                   locallyDeletedTaskIds, queue, nextId, local, remote, clock,
                   passes, inflight, merges>>

\* SyncEngine.processQueue is part of the public API: a call from outside
\* the engine, at any moment
CallProcessQueue ==
    /\ UNCHANGED <<storageVars, startupVars, platformEvents, published>>
    /\ settled' = <<>>
    /\ ProcessQueue(isOnline, <<>>)
    /\ UNCHANGED <<isOnline, navOnline, firebaseDb, locallyDeletedTaskIds,
                   queue, nextId, local, remote, clock, calls, inflight,
                   merges, enqueuedOffline, issuedKeys>>

\* ------------------------------------------------------- network listeners
StatusChanged(online) ==
    Event(EVENTS.STATUS_CHANGED, IF online THEN 1 ELSE 0)

\* window 'online' listener
OnOnline ==
    /\ isOnline' = TRUE
    /\ published' = <<StatusChanged(TRUE).arg>>
    /\ enqueuedOffline' = {}
    /\ UNCHANGED issuedKeys
    /\ ProcessQueue(TRUE, <<StatusChanged(TRUE)>>)

OnOfflineCancels ==
    /\ isOnline' = FALSE
    /\ published' = <<StatusChanged(FALSE).arg>>
    /\ enqueuedOffline' = {}
    /\ UNCHANGED issuedKeys
    /\ emitted' = <<StatusChanged(FALSE)>>
    /\ isSyncing' = FALSE
    /\ passes' = <<>>

\* window 'offline' listener
OnOffline ==
    /\ isOnline' = FALSE
    /\ published' = <<StatusChanged(FALSE).arg>>
    /\ enqueuedOffline' = {}
    /\ UNCHANGED issuedKeys
    /\ emitted' = <<StatusChanged(FALSE)>>
    /\ UNCHANGED <<isSyncing, passes>>

\* the platform changes navigator.onLine and delivers the event
PlatformEvent(b) ==
    /\ UNCHANGED <<storageVars, startupVars, platformEvents>>
    /\ settled' = <<>>
    /\ navOnline # b
    /\ navOnline' = b
    /\ IF b THEN OnOnline ELSE OnOffline
    /\ UNCHANGED <<firebaseDb, locallyDeletedTaskIds, queue, nextId, local,
                   remote, clock, calls, inflight, merges>>

\* the platform changes navigator.onLine and queues the event: the listener
\* runs in a later task
PlatformChange(b) ==
    /\ UNCHANGED <<storageVars, startupVars, published>>
    /\ settled' = <<>> /\ UNCHANGED <<enqueuedOffline, issuedKeys>>
    /\ navOnline # b
    /\ navOnline' = b
    /\ platformEvents' = Append(platformEvents, b)
    /\ emitted' = <<>>
    /\ UNCHANGED <<isOnline, firebaseDb, isSyncing, locallyDeletedTaskIds,
                   queue, nextId, local, remote, clock, calls, passes, inflight, merges>>

\* the platform delivers the oldest event it has queued
PlatformDelivers(b) ==
    /\ UNCHANGED <<storageVars, startupVars>>
    /\ settled' = <<>>
    /\ platformEvents # <<>>
    /\ b = Head(platformEvents)
    /\ platformEvents' = Tail(platformEvents)
    /\ IF b THEN OnOnline ELSE OnOffline
    /\ UNCHANGED <<navOnline, firebaseDb, locallyDeletedTaskIds, queue, nextId,
                   local, remote, clock, calls, inflight, merges>>

\* the platform changes navigator.onLine and the event is missed
PlatformSilent(b) ==
    /\ UNCHANGED <<storageVars, startupVars, platformEvents, published>>
    /\ settled' = <<>> /\ UNCHANGED <<enqueuedOffline, issuedKeys>>
    /\ navOnline # b
    /\ navOnline' = b
    /\ emitted' = <<>>
    /\ UNCHANGED <<isOnline, firebaseDb, isSyncing, locallyDeletedTaskIds,
                   queue, nextId, local, remote, clock, calls, passes, inflight, merges>>

EventNameInverted(actualOnline) == IF actualOnline THEN "offline" ELSE "online"

\* const eventName = actualOnline ? 'online' : 'offline'
EventName(actualOnline) == IF actualOnline THEN "online" ELSE "offline"

\* setInterval(checkConnection, 5000); dispatchEvent runs the listener
\* before it returns, and the listener assigns isOnline again
CheckConnection ==
    /\ UNCHANGED <<storageVars, startupVars, platformEvents>>
    /\ settled' = <<>>
    /\ navOnline # isOnline
    /\ IF EventName(navOnline) = "online" THEN OnOnline ELSE OnOffline
    /\ UNCHANGED <<navOnline, firebaseDb, locallyDeletedTaskIds, queue, nextId,
                   local, remote, clock, calls, inflight, merges>>

\* ------------------------------------------------------ processQueue, loop
\* syncTaskToCloud / deleteTaskFromCloud issue the remote request of the
\* entry at position k; the run suspends until the callback.
\* Past the last entry the loop ends: the guard is cleared and the run
\* suspends at `await OfflineQueue.getCount()`.
\* the count of sync:completed, were it the number of entries the pass
\* failed to send
RemainingFailed(q, p) == Cardinality(p.failed)

\* the count of sync:completed: `await OfflineQueue.getCount()`, read when
\* the loop has ended
Remaining(q, p) == GetCount(q)

\* the entries whose remote call, issued by a run other than i, is unanswered
Unanswered(ps, i) ==
    {ps[k].ops[ps[k].idx].id :
        k \in {k2 \in DOMAIN ps : k2 # i /\ ps[k2].pc = "remote"}}

Iterate(i, p, k, unanswered) ==
    IF k <= Len(p.ops)
    THEN /\ passes' = [passes EXCEPT ![i] =
                [p EXCEPT !.pc = "remote", !.idx = k,
                          !.issued = Append(p.issued, p.ops[k].id)]]
         /\ inflight' = unanswered \cup {p.ops[k].id}
         /\ UNCHANGED isSyncing
    ELSE /\ passes' = [passes EXCEPT ![i] =
                [NewPass(<<>>) EXCEPT !.pc = "getCount",
                                      !.remaining = Remaining(queue, p)]]
         /\ isSyncing' = FALSE
         /\ inflight' = unanswered

\* processQueue resumes with the result of getAllOperations
PassRead(i) ==
    /\ UNCHANGED <<storageVars, startupVars, platformEvents, published>>
    /\ settled' = <<>> /\ UNCHANGED <<enqueuedOffline, issuedKeys>>
    /\ i \in DOMAIN passes
    /\ passes[i].pc = "getAllOperations"
    /\ IF Len(passes[i].ops) = 0
       THEN /\ isSyncing' = FALSE
            /\ passes' = RemoveAt(passes, i)
            /\ emitted' = <<Event(EVENTS.SYNC_COMPLETED, 0)>>
            /\ UNCHANGED inflight
       ELSE /\ Iterate(i, passes[i], 1, inflight)
            /\ emitted' = <<>>
    /\ UNCHANGED <<isOnline, navOnline, firebaseDb, locallyDeletedTaskIds,
                   queue, nextId, local, remote, clock, calls, merges>>

\* the remote confirms the request of the current entry: set(task) has
\* written the record, remove() has removed it and the callback clears the
\* tombstone; processQueue goes on to `await removeOperation(operation.id)`.
\* No confirmation arrives while the platform has no link.
RemoteOk(i) ==
    /\ UNCHANGED <<storageVars, startupVars, platformEvents, published>>
    /\ settled' = <<>> /\ UNCHANGED <<enqueuedOffline, issuedKeys>>
    /\ i \in DOMAIN passes
    /\ passes[i].pc = "remote"
    /\ navOnline
    /\ LET op == passes[i].ops[passes[i].idx]
       IN /\ op.id \in inflight
          /\ inflight' = Unanswered(passes, i)
          /\ IF op.type = "save"
             THEN /\ remote' = [remote EXCEPT ![op.task.id] = op.task]
                  /\ UNCHANGED locallyDeletedTaskIds
             ELSE /\ remote' = [remote EXCEPT ![op.taskId] = NoTask]
                  /\ locallyDeletedTaskIds' = locallyDeletedTaskIds \ {op.taskId}
          /\ queue' = RemoveOperation(queue, op.id)
          /\ passes' = [passes EXCEPT ![i].pc = "removeOperation"]
    /\ emitted' = <<>>
    /\ UNCHANGED <<isOnline, navOnline, firebaseDb, isSyncing, nextId, local,
                   clock, calls, merges>>

AfterErrorBreak(p) == Len(p.ops) + 1

\* the position the loop goes on with after the inner catch: the error is
\* logged, not rethrown
AfterError(p) == p.idx + 1

AfterRejectedDropped(q, operationId) == RemoveOperation(q, operationId)

\* the queue after the inner catch: removeOperation was skipped
AfterRejected(q, operationId) == q

\* the remote rejects the request: the entry stays in the queue
RemoteErr(i) ==
    /\ UNCHANGED <<storageVars, startupVars, platformEvents, published>>
    /\ settled' = <<>> /\ UNCHANGED <<enqueuedOffline, issuedKeys>>
    /\ i \in DOMAIN passes
    /\ passes[i].pc = "remote"
    /\ LET op == passes[i].ops[passes[i].idx]
           p == [passes[i] EXCEPT !.failed = passes[i].failed \cup {op.id}]
       IN /\ op.id \in inflight
          /\ queue' = AfterRejected(queue, op.id)
          /\ Iterate(i, p, AfterError(p), Unanswered(passes, i))
    /\ emitted' = <<>>
    /\ UNCHANGED <<isOnline, navOnline, firebaseDb, locallyDeletedTaskIds,
                   nextId, local, remote, clock, calls, merges>>

\* processQueue resumes after removeOperation and takes the next entry
PassRemoved(i) ==
    /\ UNCHANGED <<storageVars, startupVars, platformEvents, published>>
    /\ settled' = <<>> /\ UNCHANGED <<enqueuedOffline, issuedKeys>>
    /\ i \in DOMAIN passes
    /\ passes[i].pc = "removeOperation"
    /\ Iterate(i, passes[i], passes[i].idx + 1, inflight)
    /\ emitted' = <<>>
    /\ UNCHANGED <<isOnline, navOnline, firebaseDb, locallyDeletedTaskIds,
                   queue, nextId, local, remote, clock, calls, merges>>

\* processQueue resumes with the count and dispatches sync:completed
PassCompleted(i) ==
    /\ UNCHANGED <<storageVars, startupVars, platformEvents, published>>
    /\ settled' = <<>> /\ UNCHANGED <<enqueuedOffline, issuedKeys>>
    /\ i \in DOMAIN passes
    /\ passes[i].pc = "getCount"
    /\ emitted' = <<Event(EVENTS.SYNC_COMPLETED, passes[i].remaining)>>
    /\ passes' = RemoveAt(passes, i)
    /\ UNCHANGED <<isOnline, navOnline, firebaseDb, isSyncing,
                   locallyDeletedTaskIds, queue, nextId, local, remote, clock,
                   calls, inflight, merges>>

CaughtNothing == <<>>

\* the outer catch of processQueue: emitEvent(EVENTS.SYNC_ERROR, ...)
Caught == <<Event(EVENTS.SYNC_ERROR, 0)>>

GuardAfterCatchKept == isSyncing

\* the outer catch of processQueue: isSyncing = false
GuardAfterCatch == FALSE

\* The queue store rejects the read run i awaits, getAllOperations at the
\* start or the one inside getCount at the end: the outer catch clears the
\* guard, whoever holds it, and dispatches sync:error.
PassReadFails(i) ==
    /\ UNCHANGED <<storageVars, startupVars, platformEvents, published>>
    /\ settled' = <<>> /\ UNCHANGED <<enqueuedOffline, issuedKeys>>
    /\ i \in DOMAIN passes
    /\ passes[i].pc \in {"getAllOperations", "getCount"}
    /\ isSyncing' = GuardAfterCatch
    /\ emitted' = Caught
    /\ passes' = RemoveAt(passes, i)
    /\ UNCHANGED <<isOnline, navOnline, firebaseDb, locallyDeletedTaskIds,
                   queue, nextId, local, remote, clock, calls, inflight, merges>>

\* ------------------------------------------------------- mergeCloudTasks
\* localMap[id]
LocalOf(localTasks, id) ==
    IF id \in IdsOf(localTasks)
    THEN CHOOSE t \in Range(localTasks) : t.id = id
    ELSE NoTask

RemoteNewerOrEqual(cloudTask, localTask) ==
    cloudTask.updated_at >= localTask.updated_at

\* new Date(cloudTask.updated_at) > new Date(localTask.updated_at)
RemoteNewer(cloudTask, localTask) == cloudTask.updated_at > localTask.updated_at

SkipNothing(cloudTask, deleted) == FALSE

\* locallyDeletedTaskIds.has(cloudTask.id) -> continue
SkipDeleted(cloudTask, deleted) == cloudTask.id \in deleted

WritesCloudTaskKnown(cloudTask, localTasks, deleted) ==
    /\ ~SkipDeleted(cloudTask, deleted)
    /\ LocalOf(localTasks, cloudTask.id) # NoTask
    /\ RemoteNewer(cloudTask, LocalOf(localTasks, cloudTask.id))

\* the first loop calls DB.addTask(cloudTask) for this entry
WritesCloudTask(cloudTask, localTasks, deleted) ==
    /\ ~SkipDeleted(cloudTask, deleted)
    /\ \/ LocalOf(localTasks, cloudTask.id) = NoTask
       \/ RemoteNewer(cloudTask, LocalOf(localTasks, cloudTask.id))

DeletesLocalTaskNever(localTask, cloudTasks) == FALSE

DeletesLocalTaskAlways(localTask, cloudTasks) == TRUE

DeletesLocalTaskInverted(localTask, cloudTasks) ==
    localTask.id \in IdsOf(cloudTasks)

\* the second loop calls DB.deleteTask(localTask.id) for this entry
DeletesLocalTask(localTask, cloudTasks) == localTask.id \notin IdsOf(cloudTasks)

Least(S) == CHOOSE k \in S : \A k2 \in S : k <= k2

\* a run of mergeCloudTasks: cloudTasks is its argument, localTasks the
\* result of the getAllTasks it issued first, i and j the positions of its
\* two loops, pc the await it is suspended at
NewMerge(cloudTasks, localTasks) ==
    [pc |-> "getAllTasks", cloudTasks |-> cloudTasks,
     localTasks |-> localTasks, i |-> 1, j |-> 1]

\* One resumption of mergeCloudTasks: it runs until the next request on the
\* tasks store.  Result: the run as suspended again and the request.
MergeStep(m, deleted) ==
    LET toWrite == {k \in m.i..Len(m.cloudTasks) :
                       WritesCloudTask(m.cloudTasks[k], m.localTasks, deleted)}
        toDelete == {k \in m.j..Len(m.localTasks) :
                       DeletesLocalTask(m.localTasks[k], m.cloudTasks)}
    IN IF toWrite # {}
       THEN [m |-> [m EXCEPT !.pc = "addTask", !.i = Least(toWrite) + 1],
             req |-> "put", task |-> m.cloudTasks[Least(toWrite)]]
       ELSE IF toDelete # {}
       THEN [m |-> [m EXCEPT !.pc = "deleteTask",
                             !.i = Len(m.cloudTasks) + 1,
                             !.j = Least(toDelete) + 1],
             req |-> "delete", task |-> m.localTasks[Least(toDelete)]]
       ELSE [m |-> [m EXCEPT !.pc = "final", !.i = Len(m.cloudTasks) + 1,
                             !.j = Len(m.localTasks) + 1],
             req |-> "getAll", task |-> NoTask]

ApplyRequest(store, st) ==
    IF st.req = "put" THEN AddTask(store, st.task)
    ELSE IF st.req = "delete" THEN DeleteTask(store, st.task.id)
    ELSE store

\* the ids the first loop of a run calls DB.addTask for
Upserted(m, deleted) ==
    {m.cloudTasks[k].id :
        k \in {k2 \in DOMAIN m.cloudTasks :
                  WritesCloudTask(m.cloudTasks[k2], m.localTasks, deleted)}}

\* the ids the second loop of a run calls DB.deleteTask for
Deleted(m) ==
    {m.localTasks[k].id :
        k \in {k2 \in DOMAIN m.localTasks :
                  DeletesLocalTask(m.localTasks[k2], m.cloudTasks)}}

\* mergeCloudTasks(cloudTasks) run from its first line to its last with
\* nothing else scheduled in between: the content of the tasks store after it
RECURSIVE RunMerge(_, _, _)
RunMerge(store, m, deleted) ==
    IF m.pc = "final" THEN store
    ELSE LET st == MergeStep(m, deleted)
         IN RunMerge(ApplyRequest(store, st), st.m, deleted)

MergeCloudTasks(store, cloudTasks, deleted) ==
    RunMerge(store, NewMerge(cloudTasks, GetAllTasks(store)), deleted)

\* the 'value' listener of firebaseDb.ref('tasks') receives a snapshot and
\* calls mergeCloudTasks, which issues getAllTasks and suspends; the remote
\* delivers nothing while the platform has no link
SnapshotArrives ==
    /\ UNCHANGED <<storageVars, startupVars, platformEvents, published>>
    /\ settled' = <<>> /\ UNCHANGED <<enqueuedOffline, issuedKeys>>
    /\ firebaseDb
    /\ navOnline
    /\ merges' = Append(merges, NewMerge(StoreValues(remote), GetAllTasks(local)))
    /\ emitted' = <<>>
    /\ UNCHANGED <<isOnline, navOnline, firebaseDb, isSyncing,
                   locallyDeletedTaskIds, queue, nextId, local, remote, clock,
                   calls, passes, inflight>>

\* mergeCloudTasks resumes and runs to its next request
MergeResume(i) ==
    /\ UNCHANGED <<storageVars, startupVars, platformEvents, published>>
    /\ settled' = <<>> /\ UNCHANGED <<enqueuedOffline, issuedKeys>>
    /\ i \in DOMAIN merges
    /\ merges[i].pc # "final"
    /\ LET st == MergeStep(merges[i], locallyDeletedTaskIds)
       IN /\ local' = ApplyRequest(local, st)
          /\ merges' = [merges EXCEPT ![i] = st.m]
    /\ emitted' = <<>>
    /\ UNCHANGED <<isOnline, navOnline, firebaseDb, isSyncing,
                   locallyDeletedTaskIds, queue, nextId, remote, clock, calls,
                   passes, inflight>>

MergeAwaitedNever(m) == TRUE

\* `await mergeCloudTasks(tasks)`: the listener goes on when the run has
\* returned, which it does when its last getAllTasks is answered
MergeAwaited(m) == m.pc = "final"

\* mergeCloudTasks returns and the listener dispatches sync:tasks-synced
MergeDone(i) ==
    /\ UNCHANGED <<storageVars, startupVars, platformEvents, published>>
    /\ settled' = <<>> /\ UNCHANGED <<enqueuedOffline, issuedKeys>>
    /\ i \in DOMAIN merges
    /\ MergeAwaited(merges[i])
    /\ merges' = RemoveAt(merges, i)
    /\ emitted' = <<Event(EVENTS.TASKS_SYNCED, Len(merges[i].cloudTasks))>>
    /\ UNCHANGED <<isOnline, navOnline, firebaseDb, isSyncing,
                   locallyDeletedTaskIds, queue, nextId, local, remote, clock,
                   calls, passes, inflight>>

\* ------------------------------------------------------------------ Spec
\* a handler may start a mutation while fewer than maxCalls are suspended
\* and fewer than maxOps operations have been enqueued or are about to be
MayMutate(maxOps, maxCalls) ==
    Len(calls) < maxCalls /\ nextId + Len(calls) <= maxOps

\* a call of processQueue may start a pass while fewer than maxPasses runs
\* are suspended
MayStart(online, maxPasses) == PassStarts(online) => Len(passes) < maxPasses

\* times: the values Date.now() may have when a handler stamps a task
Mutation(maxOps, times, maxCalls, maxPasses) ==
    \/ /\ MayMutate(maxOps, maxCalls)
       /\ \E x \in TaskIds, now \in times : SaveTask(x, now)
    \/ /\ MayMutate(maxOps, maxCalls)
       /\ \E x \in TaskIds : RemoveTask(x)
    \/ \E i \in DOMAIN calls : QueueOperation(i)
    \/ /\ MayStart(isOnline, maxPasses)
       /\ \E i \in DOMAIN calls : QueueOperationDone(i)

\* the queue store fails a request
StoreFailure ==
    \/ \E i \in DOMAIN calls : QueueOperationFails(i)
    \/ \E i \in DOMAIN calls : QueueOperationCaught(i)

Network(maxPasses) ==
    \/ MayStart(TRUE, maxPasses) /\ PlatformEvent(TRUE)
    \/ PlatformEvent(FALSE)

Trigger(maxPasses) == MayStart(isOnline, maxPasses) /\ CallProcessQueue

Replay ==
    \/ \E i \in DOMAIN passes : PassRead(i)
    \/ \E i \in DOMAIN passes : RemoteOk(i)
    \/ \E i \in DOMAIN passes : RemoteErr(i)
    \/ \E i \in DOMAIN passes : PassRemoved(i)
    \/ \E i \in DOMAIN passes : PassCompleted(i)

Merging ==
    \/ Len(merges) < MaxMerges /\ SnapshotArrives
    \/ \E i \in DOMAIN merges : MergeResume(i)
    \/ \E i \in DOMAIN merges : MergeDone(i)

\* Nothing in queueOperation, processQueue or the listeners reads
\* updated_at: here the handlers stamp with the clock as it stands.
Next ==
    \/ Mutation(MaxOps, {clock}, MaxCalls, MaxPasses)
    \/ Network(MaxPasses)
    \/ Trigger(MaxPasses)
    \/ Replay

Spec == Init /\ [][Next]_vars

\* the steps of a pass that the queue store and an answering remote bring
\* about
Answers ==
    \/ \E i \in DOMAIN passes : PassRead(i)
    \/ \E i \in DOMAIN passes : RemoteOk(i)
    \/ \E i \in DOMAIN passes : PassRemoved(i)
    \/ \E i \in DOMAIN passes : PassCompleted(i)

\* Spec with a queue store that answers and a remote that answers whenever
\* the platform has a link; handlers, network events and rejections may
\* happen or not
LiveSpec == Spec /\ WF_vars(Answers)

\* ------------------------------------------------------------- SpecBusy
NextBusy ==
    \/ Mutation(MaxBusyOps, {clock}, MaxBusyCalls, MaxBusyPasses)
    \/ Network(MaxBusyPasses)
    \/ Trigger(MaxBusyPasses)
    \/ Replay

\* both stores hold the records of `synced`, nothing is queued
InitBusy ==
    /\ navOnline \in BOOLEAN
    /\ isOnline = navOnline
    /\ firebaseDb = TRUE
    /\ isSyncing = FALSE
    /\ locallyDeletedTaskIds = {}
    /\ queue = <<>>
    /\ nextId = 1
    /\ \E synced \in SUBSET TaskIds :
          /\ local = [x \in TaskIds |->
                        IF x \in synced
                        THEN [id |-> x, updated_at |-> 1, by |-> "me"]
                        ELSE NoTask]
          /\ remote = local
    /\ clock = 1
    /\ calls = <<>>
    /\ passes = <<>>
    /\ inflight = {}
    /\ merges = <<>>
    /\ emitted = <<>>
    /\ settled = <<>>
    /\ enqueuedOffline = {}
    /\ issuedKeys = Range(Keys(queue))
    /\ Started
    /\ OneTasksStore

SpecBusy == InitBusy /\ [][NextBusy]_vars

\* ----------------------------------------------------------- SpecReplay
\* The engine after a restart.  syncQueue is an IndexedDB store and still
\* holds what an earlier session enqueued and could not replay; isSyncing
\* and locallyDeletedTaskIds live in memory and start afresh; init starts no
\* pass (syncWithCloud does not call processQueue).  The earlier session
\* began with the ids of `synced` in both stores and made the mutations ms,
\* none of which reached the remote.
Mutations(maxStored) ==
    UNION {[1..n -> [type : {"save", "delete"}, taskId : TaskIds]] :
              n \in 0..maxStored}

\* the record a handler of that session passed to DB.saveTask
Stamped(x) == [id |-> x, updated_at |-> 1, by |-> "me"]

SyncedStore(synced) ==
    [x \in TaskIds |-> IF x \in synced THEN Stamped(x) ELSE NoTask]

\* the tasks store after the first k mutations
RECURSIVE LocalAfter(_, _, _)
LocalAfter(store, ms, k) ==
    IF k = 0 THEN store
    ELSE IF ms[k].type = "save"
    THEN AddTask(LocalAfter(store, ms, k - 1), Stamped(ms[k].taskId))
    ELSE DeleteTask(LocalAfter(store, ms, k - 1), ms[k].taskId)

\* every mutation is one a handler can make: on a record that is in the
\* store, or the save of a task with a new id
Possible(store, ms) ==
    \A k \in DOMAIN ms :
        \/ LocalAfter(store, ms, k - 1)[ms[k].taskId] # NoTask
        \/ /\ ms[k].type = "save"
           /\ store[ms[k].taskId] = NoTask
           /\ \A j \in 1..(k - 1) : ms[j].taskId # ms[k].taskId

\* syncQueue after the first k calls of queueOperation
RECURSIVE Enqueued(_, _)
Enqueued(ms, k) ==
    IF k = 0 THEN <<>>
    ELSE AddOperation(Enqueued(ms, k - 1), k,
                      Operation(ms[k].type, ms[k].taskId,
                                IF ms[k].type = "save"
                                THEN Stamped(ms[k].taskId) ELSE NoTask))

InitStored(maxStored) ==
    /\ navOnline \in BOOLEAN
    /\ isOnline = navOnline
    /\ firebaseDb = TRUE
    /\ isSyncing = FALSE
    /\ locallyDeletedTaskIds = {}
    /\ \E synced \in SUBSET TaskIds : \E ms \in Mutations(maxStored) :
          /\ Possible(SyncedStore(synced), ms)
          /\ queue = Enqueued(ms, Len(ms))
          /\ local = LocalAfter(SyncedStore(synced), ms, Len(ms))
          /\ remote = SyncedStore(synced)
    /\ nextId = Len(queue) + 1
    /\ clock = 1
    /\ calls = <<>>
    /\ passes = <<>>
    /\ inflight = {}
    /\ merges = <<>>
    /\ emitted = <<>>
    /\ settled = <<>>
    /\ enqueuedOffline = {}
    /\ issuedKeys = Range(Keys(queue))
    /\ Started
    /\ OneTasksStore

InitReplay == InitStored(MaxStored)

NextReplay ==
    \/ Network(MaxReplayPasses)
    \/ Trigger(MaxReplayPasses)
    \/ Replay

SpecReplay == InitReplay /\ [][NextReplay]_vars


\* ---------------------------------------------------------- SpecOffline
\* Passes over a stored queue while the platform goes offline and online.
\* what run i of processQueue does when the request it awaits is answered
PassStep(i) ==
    \/ PassRead(i)
    \/ RemoteOk(i)
    \/ RemoteErr(i)
    \/ PassRemoved(i)
    \/ PassCompleted(i)

InitOffline == InitStored(MaxOfflineStored)

NextOffline ==
    \/ Network(MaxOfflinePasses)
    \/ Replay

SpecOffline == InitOffline /\ [][NextOffline]_vars

\* SpecOffline with a queue store that answers every request and a remote
\* that answers every call, with a confirmation or with an error
LiveOffline ==
    SpecOffline /\ \A i \in 1..MaxOfflinePasses : WF_vars(PassStep(i))

\* ----------------------------------------------------------- SpecFaulty
\* Passes over a stored queue, started by calls of processQueue while the
\* network state stays as it is, with a queue store that may reject a read.
InitFaulty == InitStored(MaxFaultyStored)

NextFaulty ==
    \/ Trigger(MaxFaultyPasses)
    \/ Replay
    \/ \E i \in DOMAIN passes : PassReadFails(i)

SpecFaulty == InitFaulty /\ [][NextFaulty]_vars

\* SpecFaulty with a queue store and a remote that answer every request,
\* with a result or with an error
LiveFaulty ==
    SpecFaulty /\ \A i \in 1..MaxFaultyPasses : WF_vars(PassStep(i))

\* --------------------------------------------------------- SpecNoRemote
\* The engine after an init that left firebaseDb null (the SDK did not load
\* within the timeout, or initFirebase threw): handlers save and remove
\* tasks, the platform goes offline and online, processQueue is called.
InitNoRemote ==
    /\ navOnline \in BOOLEAN
    /\ isOnline = navOnline
    /\ firebaseDb = FALSE
    /\ isSyncing = FALSE
    /\ locallyDeletedTaskIds = {}
    /\ \E synced \in SUBSET TaskIds : \E ms \in Mutations(MaxNoRemoteStored) :
          /\ Possible(SyncedStore(synced), ms)
          /\ queue = Enqueued(ms, Len(ms))
          /\ local = LocalAfter(SyncedStore(synced), ms, Len(ms))
          /\ remote = SyncedStore(synced)
    /\ nextId = Len(queue) + 1
    /\ clock = 1
    /\ calls = <<>>
    /\ passes = <<>>
    /\ inflight = {}
    /\ merges = <<>>
    /\ emitted = <<>>
    /\ settled = <<>>
    /\ enqueuedOffline = {}
    /\ issuedKeys = Range(Keys(queue))
    /\ platformEvents = <<>>
    /\ published = <<>>
    /\ initPc = "returned"
    /\ sdkLoaded \in BOOLEAN
    /\ polls = 0
    /\ startupSync = NoSync
    /\ OneTasksStore

NextNoRemote ==
    \/ Mutation(MaxNoRemoteOps, {clock}, MaxNoRemoteCalls, MaxNoRemotePasses)
    \/ Network(MaxNoRemotePasses)
    \/ Trigger(MaxNoRemotePasses)

SpecNoRemote == InitNoRemote /\ [][NextNoRemote]_vars

\* -------------------------------------------------------------- SpecNet
\* The network monitor: the platform flips navigator.onLine and delivers
\* its events in later tasks, the 5 s poll runs in between, and the online
\* listener replays the queue an earlier session left.
Monitor(maxEvents, maxPasses) ==
    \/ \E b \in BOOLEAN : Len(platformEvents) < maxEvents /\ PlatformChange(b)
    \/ \E b \in BOOLEAN : PlatformSilent(b)
    \/ MayStart(TRUE, maxPasses) /\ PlatformDelivers(TRUE)
    \/ PlatformDelivers(FALSE)
    \/ MayStart(navOnline, maxPasses) /\ CheckConnection

NextNet ==
    \/ Monitor(MaxPlatformEvents, MaxNetPasses)
    \/ Replay

SpecNet == InitReplay /\ [][NextNet]_vars

\* ------------------------------------------------------------- SpecPoll
\* navigator.onLine changes and no online/offline event reaches the
\* listeners: only the poll notices.
NextPoll ==
    \/ \E b \in BOOLEAN : PlatformSilent(b)
    \/ MayStart(navOnline, MaxPollPasses) /\ CheckConnection
    \/ Replay

SpecPoll == InitReplay /\ [][NextPoll]_vars

\* ---------------------------------------------------------- SpecPayload
\* The handlers save a record again after they have changed it (complete,
\* then archive): a save is stamped in the same millisecond as the last one
\* or in a later one.  The device starts online or offline and may come
\* online.
NextPayload ==
    \/ Mutation(MaxPayloadOps, {clock, clock + 1}, MaxPayloadCalls,
                MaxPayloadPasses)
    \/ MayStart(TRUE, MaxPayloadPasses) /\ PlatformEvent(TRUE)
    \/ Replay

SpecPayload == Init /\ [][NextPayload]_vars

\* ------------------------------------------------------------ SpecQueue
\* OfflineQueue called directly: each request takes effect in the order of
\* issue, so a call, its effect and its answer are one step.

\* the promise of a call of OfflineQueue settles
QueueCall(fn, key, how) == [fn |-> fn, taskId |-> "-", key |-> key, how |-> how]

\* the operations a caller may pass
Operations ==
    {Operation("save", x, [id |-> x, updated_at |-> 1, by |-> "me"]) : x \in TaskIds}
    \cup {Operation("delete", x, NoTask) : x \in TaskIds}

\* OfflineQueue.addOperation(operation), stored under the next key of the
\* key generator
AddOperationCall(operation) ==
    /\ queue' = AddOperation(queue, nextId, operation)
    /\ nextId' = nextId + 1
    /\ issuedKeys' = issuedKeys \cup {nextId}
    /\ settled' = <<QueueCall("addOperation", nextId, "fulfilled")>>
    /\ emitted' = <<>>
    /\ UNCHANGED <<isOnline, navOnline, firebaseDb, isSyncing,
                   locallyDeletedTaskIds, local, remote, clock, calls, passes,
                   inflight, merges, enqueuedOffline, platformEvents,
                   published, startupVars,
                   storageVars>>

\* OfflineQueue.addOperation(operation) and the request fails
AddOperationRejected(operation) ==
    /\ settled' = <<QueueCall("addOperation", 0, "rejected")>>
    /\ emitted' = <<>>
    /\ UNCHANGED <<isOnline, navOnline, firebaseDb, isSyncing,
                   locallyDeletedTaskIds, queue, nextId, local, remote, clock,
                   calls, passes, inflight, merges, enqueuedOffline,
                   issuedKeys, platformEvents, published, startupVars,
                   storageVars>>

\* OfflineQueue.removeOperation(operationId)
RemoveOperationCall(operationId) ==
    /\ queue' = RemoveOperation(queue, operationId)
    /\ settled' = <<QueueCall("removeOperation", operationId, "fulfilled")>>
    /\ emitted' = <<>>
    /\ UNCHANGED <<isOnline, navOnline, firebaseDb, isSyncing,
                   locallyDeletedTaskIds, nextId, local, remote, clock, calls,
                   passes, inflight, merges, enqueuedOffline, issuedKeys,
                   platformEvents, published, startupVars,
                   storageVars>>

\* the key generator after store.clear(), were clear to reset it
KeyAfterClearReset(n) == 1

\* the key generator after store.clear(): clear leaves it as it is
KeyAfterClear(n) == n

\* OfflineQueue.clear()
ClearCall ==
    /\ queue' = <<>>
    /\ nextId' = KeyAfterClear(nextId)
    /\ settled' = <<QueueCall("clear", 0, "fulfilled")>>
    /\ emitted' = <<>>
    /\ UNCHANGED <<isOnline, navOnline, firebaseDb, isSyncing,
                   locallyDeletedTaskIds, local, remote, clock, calls, passes,
                   inflight, merges, enqueuedOffline, issuedKeys,
                   platformEvents, published, startupVars,
                   storageVars>>

NextQueue ==
    \/ \E operation \in Operations :
          nextId <= MaxAdds /\ AddOperationCall(operation)
    \/ \E operation \in Operations : AddOperationRejected(operation)
    \/ \E operationId \in 1..MaxAdds : RemoveOperationCall(operationId)
    \/ ClearCall

SpecQueue == Init /\ [][NextQueue]_vars

\* ---------------------------------------------------------- SpecStartup
\* SyncEngine.init from its first await to its return, and the run of
\* syncWithCloud it starts.  The handlers are not running yet.

\* init resumes after `await OfflineQueue.initQueueStore(indexedDB)` and
\* calls waitForFirebase
QueueStoreOpened ==
    /\ initPc = "initQueueStore"
    /\ FIREBASE_ENABLED
    /\ initPc' = "waitForFirebase"
    /\ polls' = 0
    /\ emitted' = <<>>
    /\ settled' = <<>>
    /\ UNCHANGED <<isOnline, navOnline, firebaseDb, isSyncing,
                   locallyDeletedTaskIds, queue, nextId, local, remote, clock,
                   calls, passes, inflight, merges, enqueuedOffline, issuedKeys,
                   platformEvents, published, sdkLoaded, startupSync>>
    /\ UNCHANGED storageVars

\* initQueueStore rejects: the catch of init dispatches sync:error and init
\* returns
QueueStoreFailed ==
    /\ initPc = "initQueueStore"
    /\ initPc' = "returned"
    /\ emitted' = <<Event(EVENTS.SYNC_ERROR, 0)>>
    /\ settled' = <<>>
    /\ UNCHANGED <<isOnline, navOnline, firebaseDb, isSyncing,
                   locallyDeletedTaskIds, queue, nextId, local, remote, clock,
                   calls, passes, inflight, merges, enqueuedOffline, issuedKeys,
                   platformEvents, published, sdkLoaded, polls, startupSync>>
    /\ UNCHANGED storageVars

\* the script of the SDK finishes loading
SdkLoads ==
    /\ ~sdkLoaded
    /\ sdkLoaded' = TRUE
    /\ emitted' = <<>>
    /\ settled' = <<>>
    /\ UNCHANGED <<isOnline, navOnline, firebaseDb, isSyncing,
                   locallyDeletedTaskIds, queue, nextId, local, remote, clock,
                   calls, passes, inflight, merges, enqueuedOffline, issuedKeys,
                   platformEvents, published, initPc, polls, startupSync>>
    /\ UNCHANGED storageVars

\* waitForFirebase gives up once its time is over
PollsOver(n) == n >= MaxPolls

\* waitForFirebase sleeps another 50 ms
WaitPolls ==
    /\ initPc = "waitForFirebase"
    /\ ~sdkLoaded
    /\ ~PollsOver(polls)
    /\ polls' = polls + 1
    /\ emitted' = <<>>
    /\ settled' = <<>>
    /\ UNCHANGED <<isOnline, navOnline, firebaseDb, isSyncing,
                   locallyDeletedTaskIds, queue, nextId, local, remote, clock,
                   calls, passes, inflight, merges, enqueuedOffline, issuedKeys,
                   platformEvents, published, initPc, sdkLoaded, startupSync>>
    /\ UNCHANGED storageVars

\* syncWithCloud up to its first await: the request of the snapshot and the
\* 10 s timer
SyncWithCloud(db, online) ==
    IF db /\ online
    THEN [pc |-> "once", timer |-> "armed", merge |-> <<>>, late |-> FALSE]
    ELSE NoSync

\* where init stands after it has called syncWithCloud, which it does not
\* await
AfterSyncStartedAwaited == "syncWithCloud"

AfterSyncStarted == "returned"

\* the rest of init: initFirebase (ok: it got a database handle), the
\* network listeners, and syncWithCloud in the background
InitFinishes(ok) ==
    /\ firebaseDb' = ok
    /\ IF FIREBASE_ENABLED /\ isOnline /\ ok
       THEN /\ startupSync' = SyncWithCloud(ok, isOnline)
            /\ initPc' = AfterSyncStarted
       ELSE /\ startupSync' = startupSync
            /\ initPc' = "returned"
    /\ emitted' = <<>>
    /\ settled' = <<>>
    /\ UNCHANGED <<isOnline, navOnline, isSyncing, locallyDeletedTaskIds,
                   queue, nextId, local, remote, clock, calls, passes,
                   inflight, merges, enqueuedOffline, issuedKeys, platformEvents,
                   published, sdkLoaded, polls>>
    /\ UNCHANGED storageVars

\* waitForFirebase finds the SDK and returns
SdkFound(ok) ==
    /\ initPc = "waitForFirebase"
    /\ sdkLoaded
    /\ InitFinishes(ok)

\* waitForFirebase throws after its time: init goes on without Firebase
SdkMissing ==
    /\ initPc = "waitForFirebase"
    /\ ~sdkLoaded
    /\ PollsOver(polls)
    /\ InitFinishes(FALSE)

\* a caller suspended at an await of the inner function of syncWithCloud
\* resumes when it returns
Resumed(pc) == IF pc = "syncWithCloud" THEN "returned" ELSE pc

\* the snapshot of once('value') arrives: the inner function calls
\* mergeCloudTasks, which issues getAllTasks and suspends.  Nothing in the
\* inner function reads the timer.
FetchArrives ==
    /\ startupSync.pc = "once"
    /\ navOnline
    /\ startupSync' =
          [startupSync EXCEPT !.pc = "merge",
              !.merge = <<NewMerge(StoreValues(remote), GetAllTasks(local))>>,
              !.late = (startupSync.timer = "fired")]
    /\ emitted' = <<>>
    /\ settled' = <<>>
    /\ UNCHANGED <<isOnline, navOnline, firebaseDb, isSyncing,
                   locallyDeletedTaskIds, queue, nextId, local, remote, clock,
                   calls, passes, inflight, merges, enqueuedOffline, issuedKeys,
                   platformEvents, published, initPc, sdkLoaded, polls>>
    /\ UNCHANGED storageVars

\* once('value') rejects: the catch of the inner function dispatches
\* sync:error
FetchFails ==
    /\ startupSync.pc = "once"
    /\ startupSync' = [startupSync EXCEPT !.pc = "done"]
    /\ initPc' = Resumed(initPc)
    /\ emitted' = <<Event(EVENTS.SYNC_ERROR, 0)>>
    /\ settled' = <<>>
    /\ UNCHANGED <<isOnline, navOnline, firebaseDb, isSyncing,
                   locallyDeletedTaskIds, queue, nextId, local, remote, clock,
                   calls, passes, inflight, merges, enqueuedOffline, issuedKeys,
                   platformEvents, published, sdkLoaded, polls>>
    /\ UNCHANGED storageVars

\* the 10 s timer fires and rejects its promise; if the race is still open
\* the catch of syncWithCloud logs and syncWithCloud's promise is fulfilled
TimerFires ==
    /\ startupSync.timer = "armed"
    /\ startupSync' = [startupSync EXCEPT !.timer = "fired"]
    /\ emitted' = <<>>
    /\ settled' = <<>>
    /\ UNCHANGED <<isOnline, navOnline, firebaseDb, isSyncing,
                   locallyDeletedTaskIds, queue, nextId, local, remote, clock,
                   calls, passes, inflight, merges, enqueuedOffline, issuedKeys,
                   platformEvents, published, initPc, sdkLoaded, polls>>
    /\ UNCHANGED storageVars

\* mergeCloudTasks of the startup run resumes and runs to its next request
StartupMergeResume ==
    /\ startupSync.pc = "merge"
    /\ startupSync.merge[1].pc # "final"
    /\ LET st == MergeStep(startupSync.merge[1], locallyDeletedTaskIds)
       IN /\ local' = ApplyRequest(local, st)
          /\ startupSync' = [startupSync EXCEPT !.merge = <<st.m>>]
    /\ emitted' = <<>>
    /\ settled' = <<>>
    /\ UNCHANGED <<isOnline, navOnline, firebaseDb, isSyncing,
                   locallyDeletedTaskIds, queue, nextId, remote, clock, calls,
                   passes, inflight, merges, enqueuedOffline, issuedKeys, platformEvents,
                   published, initPc, sdkLoaded, polls>>
    /\ UNCHANGED storageVars

\* mergeCloudTasks returns and the inner function dispatches
\* sync:tasks-synced
StartupMergeDone ==
    /\ startupSync.pc = "merge"
    /\ startupSync.merge[1].pc = "final"
    /\ startupSync' = [startupSync EXCEPT !.pc = "done", !.merge = <<>>]
    /\ initPc' = Resumed(initPc)
    /\ emitted' = <<Event(EVENTS.TASKS_SYNCED,
                          Len(startupSync.merge[1].cloudTasks))>>
    /\ settled' = <<>>
    /\ UNCHANGED <<isOnline, navOnline, firebaseDb, isSyncing,
                   locallyDeletedTaskIds, queue, nextId, local, remote, clock,
                   calls, passes, inflight, merges, enqueuedOffline, issuedKeys,
                   platformEvents, published, sdkLoaded, polls>>
    /\ UNCHANGED storageVars

\* init has been called and waits for the queue store; both stores may hold
\* records of an earlier session
InitStartup ==
    /\ navOnline \in BOOLEAN
    /\ isOnline = navOnline
    /\ firebaseDb = FALSE
    /\ isSyncing = FALSE
    /\ locallyDeletedTaskIds = {}
    /\ queue = <<>>
    /\ nextId = 1
    /\ local \in Stores(1, {"me"})
    /\ remote \in Stores(1, {"other"})
    /\ clock = 1
    /\ calls = <<>>
    /\ passes = <<>>
    /\ inflight = {}
    /\ merges = <<>>
    /\ emitted = <<>>
    /\ settled = <<>>
    /\ enqueuedOffline = {}
    /\ issuedKeys = Range(Keys(queue))
    /\ platformEvents = <<>>
    /\ published = <<>>
    /\ initPc = "initQueueStore"
    /\ sdkLoaded \in BOOLEAN
    /\ polls = 0
    /\ startupSync = NoSync
    /\ OneTasksStore

\* the steps init itself waits for
InitRuns ==
    \/ QueueStoreOpened
    \/ QueueStoreFailed
    \/ WaitPolls
    \/ \E ok \in BOOLEAN : SdkFound(ok)
    \/ SdkMissing

\* the steps of the startup run of syncWithCloud
StartupSyncRuns ==
    \/ FetchArrives
    \/ FetchFails
    \/ TimerFires
    \/ StartupMergeResume
    \/ StartupMergeDone

NextStartup ==
    \/ InitRuns
    \/ SdkLoads
    \/ StartupSyncRuns

SpecStartup == InitStartup /\ [][NextStartup]_vars

\* the queue store answers and timers fire; the remote need not answer
LiveStartup == SpecStartup /\ WF_vars(InitRuns) /\ WF_vars(TimerFires)

\* ------------------------------------------------------------- SpecSync
\* The engine with the snapshot listener: the stores hold what earlier
\* sessions and other devices left, the queue is empty, and the network
\* state stays what it was at start.  The devices' clocks agree: no record
\* is stamped later than this device's clock.
MaxOf(S) == IF S = {} THEN 1 ELSE CHOOSE k \in S : \A k2 \in S : k >= k2

InitSync ==
    /\ navOnline \in BOOLEAN
    /\ isOnline = navOnline
    /\ firebaseDb = TRUE
    /\ isSyncing = FALSE
    /\ locallyDeletedTaskIds = {}
    /\ queue = <<>>
    /\ nextId = 1
    /\ local \in Stores(1, {"me"})
    /\ remote \in Stores(MaxSyncTime, {"other"})
    /\ clock = MaxOf({remote[x].updated_at : x \in TaskIds} \cup {1})
    /\ calls = <<>>
    /\ passes = <<>>
    /\ inflight = {}
    /\ merges = <<>>
    /\ emitted = <<>>
    /\ settled = <<>>
    /\ enqueuedOffline = {}
    /\ issuedKeys = Range(Keys(queue))
    /\ Started
    /\ OneTasksStore

NextSync ==
    \/ Mutation(MaxSyncOps, 1..MaxSyncTime, MaxCalls, MaxSyncPasses)
    \/ StoreFailure
    \/ Replay
    \/ Merging

SpecSync == InitSync /\ [][NextSync]_vars

\* ------------------------------------------------------------ SpecMerge
\* mergeCloudTasks alone: any local store, any remote collection, any set
\* of tombstones with their queued deletes; one merge at a time and nothing
\* else running.
DeletesOf(ids) ==
    LET RECURSIVE from(_, _)
        from(i, key) ==
            IF i > Len(IdOrder) THEN <<>>
            ELSE IF IdOrder[i] \in ids
            THEN <<[id |-> key, type |-> "delete", taskId |-> IdOrder[i],
                    task |-> NoTask]>> \o from(i + 1, key + 1)
            ELSE from(i + 1, key)
    IN from(1, 1)

InitMerge ==
    /\ navOnline = TRUE
    /\ isOnline = TRUE
    /\ firebaseDb = TRUE
    /\ isSyncing = FALSE
    /\ locallyDeletedTaskIds \in SUBSET TaskIds
    /\ queue = DeletesOf(locallyDeletedTaskIds)
    /\ nextId = Len(queue) + 1
    /\ local \in Stores(MaxMergeTime, {"me", "other"})
    /\ remote \in Stores(MaxMergeTime, {"me", "other"})
    /\ clock = MaxMergeTime
    /\ calls = <<>>
    /\ passes = <<>>
    /\ inflight = {}
    /\ merges = <<>>
    /\ emitted = <<>>
    /\ settled = <<>>
    /\ enqueuedOffline = {}
    /\ issuedKeys = Range(Keys(queue))
    /\ Started
    /\ OneTasksStore

NextMerge ==
    \/ merges = <<>> /\ SnapshotArrives
    \/ \E i \in DOMAIN merges : MergeResume(i)
    \/ \E i \in DOMAIN merges : MergeDone(i)

SpecMerge == InitMerge /\ [][NextMerge]_vars

\* ------------------------------------------- StorageManager and DB (two
\* storages).  The application of part_004: StorageManager.init, then
\* DB.init of the two-storage DB module, then the handlers.
MERGE_STATE_MERGED == "merged"
MERGE_STATE_SPLIT == "split"
DEFAULT_STORAGE == "storage1"

engineVars == <<isOnline, navOnline, firebaseDb, isSyncing,
                locallyDeletedTaskIds, queue, nextId, local, remote, clock,
                calls, passes, inflight, merges, emitted, settled,
                enqueuedOffline, issuedKeys, platformEvents, published,
                initPc, sdkLoaded, polls, startupSync>>

\* StorageManager.getCurrent
GetCurrent(storage) == IF storage = "null" THEN DEFAULT_STORAGE ELSE storage

\* StorageManager.getMergeState
GetMergeState(state) == IF state = "null" THEN MERGE_STATE_SPLIT ELSE state

\* `tasks_${storageName}`
TableOf(storageName) == "tasks_" \o storageName

\* store.clear()
Cleared(store) == [x \in TaskIds |-> NoTask]

\* store.put(task) for every task of the array, in one transaction
RECURSIVE PutAll(_, _)
PutAll(store, tasks) ==
    IF tasks = <<>> THEN store
    ELSE PutAll(AddTask(store, Head(tasks)), Tail(tasks))

\* a suspended mergeStorages / splitStorages call: pc is the await it
\* stands at, tasks what getTasksFromStorage('storage2') gave it
StorageCall(fn, pc) == [fn |-> fn, pc |-> pc, tasks |-> <<>>]

\* the page is loaded or reloaded: the object stores and localStorage stay,
\* the modules start afresh and what was suspended is gone
PageLoads ==
    /\ appPc' = "StorageManager.init"
    /\ currentMergeState' = "null"
    /\ currentStorage' = "null"
    /\ currentStoreName' = "null"
    /\ dbOpened' = FALSE
    /\ storageCalls' = <<>>
    /\ returned' = "none"
    /\ UNCHANGED <<storage1, storage2, savedMergeState, savedStorage>>
    /\ UNCHANGED engineVars

\* StorageManager.init up to its return or to the selection dialog
StorageManagerInit ==
    /\ appPc = "StorageManager.init"
    /\ currentMergeState' = IF savedMergeState = "none" THEN MERGE_STATE_SPLIT
                            ELSE savedMergeState
    /\ IF currentMergeState' = MERGE_STATE_MERGED
       THEN currentStorage' = "storage1" /\ appPc' = "DB.init"
       ELSE currentStorage' = currentStorage /\ appPc' = "modal"
    /\ returned' = "none"
    /\ UNCHANGED <<storage1, storage2, savedMergeState, savedStorage,
                   currentStoreName, dbOpened, storageCalls>>
    /\ UNCHANGED engineVars

\* the user picks a storage in the dialog: selectStorage, which calls
\* DB.setCurrentStorage and resolves the promise of StorageManager.init
SelectStorage(storage) ==
    /\ appPc = "modal"
    /\ currentStorage' = storage
    /\ currentStoreName' = TableOf(storage)
    /\ appPc' = "DB.init"
    /\ returned' = "none"
    /\ UNCHANGED <<storage1, storage2, savedMergeState, savedStorage,
                   currentMergeState, dbOpened, storageCalls>>
    /\ UNCHANGED engineVars

\* DB.init calls initIndexedDB, which names the current store and issues
\* indexedDB.open
InitIndexedDB ==
    /\ appPc = "DB.init"
    /\ currentStoreName' = TableOf(GetCurrent(currentStorage))
    /\ appPc' = "open"
    /\ returned' = "none"
    /\ UNCHANGED <<storage1, storage2, savedMergeState, savedStorage,
                   currentMergeState, currentStorage, dbOpened, storageCalls>>
    /\ UNCHANGED engineVars

\* tasks_storage2 after request.onsuccess of initIndexedDB
Storage2AfterOpen(state, store) ==
    IF GetMergeState(state) = MERGE_STATE_SPLIT THEN Cleared(store) ELSE store

\* request.onsuccess of initIndexedDB; App.init goes on to the handlers
DbOpened ==
    /\ appPc = "open"
    /\ dbOpened' = TRUE
    /\ storage2' = Storage2AfterOpen(currentMergeState, storage2)
    /\ appPc' = "ready"
    /\ returned' = "none"
    /\ UNCHANGED <<storage1, savedMergeState, savedStorage, currentMergeState,
                   currentStorage, currentStoreName, storageCalls>>
    /\ UNCHANGED engineVars

\* request.onerror of initIndexedDB: DB.init throws, App.init logs and stops
DbOpenFails ==
    /\ appPc = "open"
    /\ appPc' = "failed"
    /\ returned' = "none"
    /\ UNCHANGED <<storage1, storage2, savedMergeState, savedStorage,
                   currentMergeState, currentStorage, currentStoreName,
                   dbOpened, storageCalls>>
    /\ UNCHANGED engineVars

\* a request of the DB module on the store named currentStoreName
OnCurrentStore(name, s1, s2) ==
    /\ storage1' = IF name = "tasks_storage1" THEN s1 ELSE storage1
    /\ storage2' = IF name = "tasks_storage2" THEN s2 ELSE storage2

\* DB.addTask(task)
DbAddTask(task) ==
    /\ appPc = "ready"
    /\ dbOpened
    /\ OnCurrentStore(currentStoreName, AddTask(storage1, task),
                      AddTask(storage2, task))
    /\ returned' = "none"
    /\ UNCHANGED <<savedMergeState, savedStorage, currentMergeState,
                   currentStorage, currentStoreName, dbOpened, appPc,
                   storageCalls>>
    /\ UNCHANGED engineVars

\* DB.deleteTask(taskId)
DbDeleteTask(taskId) ==
    /\ appPc = "ready"
    /\ dbOpened
    /\ OnCurrentStore(currentStoreName, DeleteTask(storage1, taskId),
                      DeleteTask(storage2, taskId))
    /\ returned' = "none"
    /\ UNCHANGED <<savedMergeState, savedStorage, currentMergeState,
                   currentStorage, currentStoreName, dbOpened, appPc,
                   storageCalls>>
    /\ UNCHANGED engineVars

\* mergeStorages sets the flag and the selection and returns true
MergedNow(i) ==
    /\ currentMergeState' = MERGE_STATE_MERGED
    /\ savedMergeState' = MERGE_STATE_MERGED
    /\ currentStorage' = "storage1"
    /\ savedStorage' = "storage1"
    /\ storageCalls' = RemoveAt(storageCalls, i)
    /\ returned' = "true"

\* the flag is raised before the copy has been made
SuspendedMergeEarly(pc) ==
    /\ currentMergeState' = MERGE_STATE_MERGED
    /\ savedMergeState' = MERGE_STATE_MERGED
    /\ storageCalls' = Append(storageCalls, StorageCall("mergeStorages", pc))
    /\ returned' = "none"
    /\ UNCHANGED <<savedStorage, currentStorage>>

\* a call that passed the check of mergeStorages or splitStorages suspends
\* at its first await with the flags as they were
SuspendedCall(fn, pc) ==
    /\ storageCalls' = Append(storageCalls, StorageCall(fn, pc))
    /\ returned' = "none"
    /\ UNCHANGED <<savedMergeState, savedStorage, currentMergeState,
                   currentStorage>>

SuspendedMerge(pc) == SuspendedCall("mergeStorages", pc)

\* a call that found nothing to do returns false
ReturnedFalse ==
    /\ returned' = "false"
    /\ UNCHANGED <<savedMergeState, savedStorage, currentMergeState,
                   currentStorage, storageCalls>>

\* StorageManager.mergeStorages() up to its first await or its return
MergeStoragesCalled ==
    /\ appPc = "ready"
    /\ IF currentMergeState = MERGE_STATE_MERGED
       THEN ReturnedFalse
       ELSE SuspendedMerge("getTasksFromStorage")
    /\ UNCHANGED <<storage1, storage2, currentStoreName, dbOpened, appPc>>
    /\ UNCHANGED engineVars

\* getTasksFromStorage('storage2') is answered; with no task to copy
\* mergeStorages goes on to its end
MergeStoragesRead(i) ==
    /\ i \in DOMAIN storageCalls
    /\ storageCalls[i].fn = "mergeStorages"
    /\ storageCalls[i].pc = "getTasksFromStorage"
    /\ IF GetAllTasks(storage2) = <<>>
       THEN MergedNow(i)
       ELSE /\ storageCalls' =
                  [storageCalls EXCEPT ![i].pc = "saveTasksToStorage",
                                       ![i].tasks = GetAllTasks(storage2)]
            /\ returned' = "none"
            /\ UNCHANGED <<savedMergeState, savedStorage, currentMergeState,
                           currentStorage>>
    /\ UNCHANGED <<storage1, storage2, currentStoreName, dbOpened, appPc>>
    /\ UNCHANGED engineVars

\* saveTasksToStorage('storage1', storage2Tasks) has opened the database and
\* issues its puts
MergeStoragesWrite(i) ==
    /\ i \in DOMAIN storageCalls
    /\ storageCalls[i].fn = "mergeStorages"
    /\ storageCalls[i].pc = "saveTasksToStorage"
    /\ storage1' = PutAll(storage1, storageCalls[i].tasks)
    /\ storageCalls' = [storageCalls EXCEPT ![i].pc = "saved"]
    /\ returned' = "none"
    /\ UNCHANGED <<storage2, savedMergeState, savedStorage, currentMergeState,
                   currentStorage, currentStoreName, dbOpened, appPc>>
    /\ UNCHANGED engineVars

\* the last put has succeeded: mergeStorages goes on to its end
MergeStoragesDone(i) ==
    /\ i \in DOMAIN storageCalls
    /\ storageCalls[i].fn = "mergeStorages"
    /\ storageCalls[i].pc = "saved"
    /\ MergedNow(i)
    /\ UNCHANGED <<storage1, storage2, currentStoreName, dbOpened, appPc>>
    /\ UNCHANGED engineVars

\* an open or a request of a suspended call fails: the promise it awaits
\* rejects, the catch logs and throws again
StorageCallFails(i) ==
    /\ i \in DOMAIN storageCalls
    /\ storageCalls[i].pc \in {"getTasksFromStorage", "saveTasksToStorage",
                               "clearStorage"}
    /\ storageCalls' = RemoveAt(storageCalls, i)
    /\ returned' = "thrown"
    /\ UNCHANGED <<storage1, storage2, savedMergeState, savedStorage,
                   currentMergeState, currentStorage, currentStoreName,
                   dbOpened, appPc>>
    /\ UNCHANGED engineVars

\* StorageManager.splitStorages() up to its first await or its return
SplitStoragesCalled ==
    /\ appPc = "ready"
    /\ IF currentMergeState = MERGE_STATE_SPLIT
       THEN ReturnedFalse
       ELSE SuspendedCall("splitStorages", "clearStorage")
    /\ UNCHANGED <<storage1, storage2, currentStoreName, dbOpened, appPc>>
    /\ UNCHANGED engineVars

\* clearStorage('storage2') has opened the database and issues its clear
SplitStoragesClear(i) ==
    /\ i \in DOMAIN storageCalls
    /\ storageCalls[i].fn = "splitStorages"
    /\ storageCalls[i].pc = "clearStorage"
    /\ storage2' = Cleared(storage2)
    /\ storageCalls' = [storageCalls EXCEPT ![i].pc = "cleared"]
    /\ returned' = "none"
    /\ UNCHANGED <<storage1, savedMergeState, savedStorage, currentMergeState,
                   currentStorage, currentStoreName, dbOpened, appPc>>
    /\ UNCHANGED engineVars

\* the clear has succeeded: splitStorages sets the flag, forgets the
\* selection and returns true
SplitStoragesDone(i) ==
    /\ i \in DOMAIN storageCalls
    /\ storageCalls[i].fn = "splitStorages"
    /\ storageCalls[i].pc = "cleared"
    /\ currentMergeState' = MERGE_STATE_SPLIT
    /\ savedMergeState' = MERGE_STATE_SPLIT
    /\ savedStorage' = "none"
    /\ storageCalls' = RemoveAt(storageCalls, i)
    /\ returned' = "true"
    /\ UNCHANGED <<storage1, storage2, currentStorage, currentStoreName,
                   dbOpened, appPc>>
    /\ UNCHANGED engineVars

\* --------------------------------------------------------- SpecStorages
\* The page with two storages: it is loaded over what earlier sessions left
\* in the object stores and in localStorage, the user picks a storage, the
\* handlers add and delete tasks, the settings dialog merges and splits.
\* The handlers and the dialog take turns: no task is added or deleted
\* while a mergeStorages or splitStorages call is suspended.
EngineAtRest ==
    /\ navOnline = TRUE
    /\ isOnline = TRUE
    /\ firebaseDb = FALSE
    /\ isSyncing = FALSE
    /\ locallyDeletedTaskIds = {}
    /\ queue = <<>>
    /\ nextId = 1
    /\ local = [x \in TaskIds |-> NoTask]
    /\ remote = [x \in TaskIds |-> NoTask]
    /\ clock = 1
    /\ calls = <<>>
    /\ passes = <<>>
    /\ inflight = {}
    /\ merges = <<>>
    /\ emitted = <<>>
    /\ settled = <<>>
    /\ enqueuedOffline = {}
    /\ issuedKeys = {}
    /\ Started

InitStorages ==
    /\ EngineAtRest
    /\ storage1 \in Stores(MaxStorageTime, {"me"})
    /\ storage2 \in Stores(MaxStorageTime, {"me"})
    /\ savedMergeState \in {"none", MERGE_STATE_MERGED, MERGE_STATE_SPLIT}
    /\ savedStorage = IF savedMergeState = MERGE_STATE_MERGED
                      THEN "storage1" ELSE "none"
    /\ currentMergeState = "null"
    /\ currentStorage = "null"
    /\ currentStoreName = "null"
    /\ dbOpened = FALSE
    /\ appPc = "StorageManager.init"
    /\ storageCalls = <<>>
    /\ returned = "none"

StoredTasks == {t \in Tasks(MaxStorageTime) : t.by = "me"}

NextStorages ==
    \/ PageLoads
    \/ StorageManagerInit
    \/ \E storage \in {"storage1", "storage2"} : SelectStorage(storage)
    \/ InitIndexedDB
    \/ DbOpened
    \/ DbOpenFails
    \/ storageCalls = <<>> /\ \E task \in StoredTasks : DbAddTask(task)
    \/ storageCalls = <<>> /\ \E taskId \in TaskIds : DbDeleteTask(taskId)
    \/ Len(storageCalls) < MaxStorageCalls /\ MergeStoragesCalled
    \/ \E i \in DOMAIN storageCalls : MergeStoragesRead(i)
    \/ \E i \in DOMAIN storageCalls : MergeStoragesWrite(i)
    \/ \E i \in DOMAIN storageCalls : MergeStoragesDone(i)
    \/ Len(storageCalls) < MaxStorageCalls /\ SplitStoragesCalled
    \/ \E i \in DOMAIN storageCalls : SplitStoragesClear(i)
    \/ \E i \in DOMAIN storageCalls : SplitStoragesDone(i)
    \/ \E i \in DOMAIN storageCalls : StorageCallFails(i)

SpecStorages == InitStorages /\ [][NextStorages]_vars

\* --------------------------------------------------------- SpecListener
\* The snapshot listener alone: the remote delivers the collection again
\* while the merge of an earlier delivery is still suspended.
NextListener ==
    \/ Len(merges) < MaxListenerMerges /\ SnapshotArrives
    \/ \E i \in DOMAIN merges : MergeResume(i)
    \/ \E i \in DOMAIN merges : MergeDone(i)

SpecListener == InitMerge /\ [][NextListener]_vars

\* ---------------------------------------------------------- SpecRestart
\* The page is loaded again while the queue holds entries: syncQueue is in
\* IndexedDB and is found as it was left, locallyDeletedTaskIds is a Set the
\* module constructs anew.
RestoredTombstonesFromQueue(q) ==
    {q[k].taskId : k \in {k2 \in DOMAIN q : q[k2].type = "delete"}}

\* const locallyDeletedTaskIds = new Set()
RestoredTombstones(q) == {}

InitRestart ==
    /\ navOnline = TRUE
    /\ isOnline = TRUE
    /\ firebaseDb = TRUE
    /\ isSyncing = FALSE
    /\ \E synced \in SUBSET TaskIds : \E ms \in Mutations(MaxRestartStored) :
          /\ Possible(SyncedStore(synced), ms)
          /\ queue = Enqueued(ms, Len(ms))
          /\ local = LocalAfter(SyncedStore(synced), ms, Len(ms))
          /\ remote = SyncedStore(synced)
    /\ locallyDeletedTaskIds = RestoredTombstones(queue)
    /\ nextId = Len(queue) + 1
    /\ clock = 1
    /\ calls = <<>>
    /\ passes = <<>>
    /\ inflight = {}
    /\ merges = <<>>
    /\ emitted = <<>>
    /\ settled = <<>>
    /\ enqueuedOffline = {}
    /\ issuedKeys = Range(Keys(queue))
    /\ Started
    /\ OneTasksStore

NextRestart ==
    \/ Len(merges) < MaxRestartMerges /\ SnapshotArrives
    \/ \E i \in DOMAIN merges : MergeResume(i)
    \/ \E i \in DOMAIN merges : MergeDone(i)

SpecRestart == InitRestart /\ [][NextRestart]_vars

\* ------------------------------------------------------------ properties
Replaying(p) == p.pc \in {"getAllOperations", "remote", "removeOperation"}

ReplayingPasses == {i \in DOMAIN passes : Replaying(passes[i])}

\* C1: a replay pass in which no remote call has failed has issued its
\* remote calls for the entries the queue held when it read it, one per
\* entry, in ascending key order, which is the order of enqueueing; at most
\* one remote call is unanswered, the one issued last.
OrderPreserved ==
    /\ Cardinality(inflight) <= 1
    /\ \A i \in DOMAIN passes :
          LET p == passes[i]
          IN p.failed = {} /\ Replaying(p) =>
                /\ Len(p.issued) = p.idx
                /\ p.issued = SubSeq(Keys(p.snapshot), 1, p.idx)
                /\ \A k \in 1..(Len(p.snapshot) - 1) :
                      p.snapshot[k].id < p.snapshot[k + 1].id
                /\ inflight = IF p.pc = "remote" THEN {p.issued[p.idx]} ELSE {}

\* a pass over two entries, enqueued by two calls of queueOperation, whose
\* two remote calls were both confirmed
OrderPreservedWitness ==
    \E i \in DOMAIN passes :
        /\ passes[i].pc = "removeOperation"
        /\ passes[i].failed = {}
        /\ Len(passes[i].snapshot) = 2
        /\ passes[i].issued = Keys(passes[i].snapshot)

\* a step in which processQueue is called
CallsProcessQueue ==
    \/ PlatformEvent(TRUE)
    \/ isOnline /\ \E i \in DOMAIN calls : QueueOperationDone(i)
    \/ CallProcessQueue

\* C2: at most one run of processQueue is between taking the guard and
\* clearing it, and the guard is set exactly then; a call of processQueue
\* made while the guard is set starts no run, reads and changes no queue
\* entry and issues no remote call.
AtMostOnePass ==
    /\ [](Cardinality(ReplayingPasses) <= 1 /\ (isSyncing <=> ReplayingPasses # {}))
    /\ [][isSyncing /\ CallsProcessQueue =>
             /\ passes' = passes /\ inflight' = inflight
             /\ queue' = queue /\ remote' = remote /\ isSyncing']_vars

\* the online listener has just called processQueue during a pass: it
\* dispatched the status event and nothing else
AtMostOnePassWitness ==
    /\ isSyncing /\ firebaseDb /\ isOnline
    /\ emitted = <<StatusChanged(TRUE)>>
    /\ \E i \in DOMAIN passes : passes[i].pc = "remote"

\* the loop of run i ends in this step
LoopEnds(i) ==
    /\ i \in DOMAIN passes /\ i \in DOMAIN passes'
    /\ passes[i].pc \in {"remote", "removeOperation"}
    /\ passes'[i].pc = "getCount"

\* C3: when the loop of a pass ends, a remote call has been issued for every
\* entry of its snapshot, and of these entries the queue holds exactly those
\* whose call failed, in their original order.
FailureIsolated ==
    [][\A i \in DOMAIN passes : LoopEnds(i) =>
          LET p == passes[i]
              failed == IF p.pc = "remote"
                        THEN p.failed \cup {p.ops[p.idx].id} ELSE p.failed
          IN /\ p.issued = Keys(p.snapshot)
             /\ SelectSeq(queue', LAMBDA o : o.id \in Range(Keys(p.snapshot)))
                  = SelectSeq(p.snapshot, LAMBDA o : o.id \in failed)]_vars

\* [Save, Delete, Save] with only the delete rejected: the third entry has
\* been confirmed and removed, the queue is [Delete]
FailureIsolatedWitness ==
    \E i \in DOMAIN passes :
        LET p == passes[i]
        IN /\ p.pc = "removeOperation" /\ p.idx = 3
           /\ Len(p.snapshot) = 3
           /\ p.snapshot[1].type = "save" /\ p.snapshot[2].type = "delete"
           /\ p.snapshot[3].type = "save"
           /\ p.failed = {p.snapshot[2].id}
           /\ queue = <<p.snapshot[2]>>

\* C10: queueOperation calls processQueue only when its add has been issued
\* and isOnline is true, and the pass this starts has not got beyond reading
\* the queue when queueOperation returns; no caller is ever suspended on
\* processQueue.
FireAndForget ==
    /\ [](\A i \in DOMAIN calls :
             calls[i].pc \in {"addTask", "deleteTask", "addOperation",
                              "addOperationFailed"})
    /\ [][\A i \in DOMAIN calls : QueueOperationDone(i) =>
             /\ Len(calls') = Len(calls) - 1
             /\ passes' # passes =>
                   /\ isOnline
                   /\ calls[i].key \in 1..(nextId - 1)
                   /\ passes' = Append(passes, NewPass(queue))
                   /\ inflight' = inflight]_vars

\* queueOperation has just started a pass and returned: no call is
\* suspended, the pass has read the entry and no remote call is answered
FireAndForgetWitness ==
    /\ calls = <<>> /\ isOnline
    /\ emitted = <<Event(EVENTS.SYNC_STARTED, 0)>>
    /\ \E i \in DOMAIN passes :
          passes[i].pc = "getAllOperations" /\ passes[i].snapshot # <<>>

NoSyncError(ev) == \A k \in DOMAIN ev : ev[k].name # EVENTS.SYNC_ERROR

\* C4: a step of mergeCloudTasks whose snapshot contains an id that is in
\* locallyDeletedTaskIds leaves the local record of that id as it is, and no
\* step of a merge dispatches sync:error.
TombstonePrecedence ==
    [][\A i \in DOMAIN merges : MergeResume(i) \/ MergeDone(i) =>
          /\ NoSyncError(emitted')
          /\ \A x \in locallyDeletedTaskIds :
                x \in IdsOf(merges[i].cloudTasks) => local'[x] = local[x]]_vars

\* a merge has gone through a snapshot that contains a tombstoned id; the
\* record is not in the local store
TombstonePrecedenceWitness ==
    \E i \in DOMAIN merges : \E x \in locallyDeletedTaskIds :
        /\ merges[i].pc = "final"
        /\ x \in IdsOf(merges[i].cloudTasks)
        /\ local[x] = NoTask

\* C5: once a merge that ran alone has gone through its loops, every id that
\* was in the local store and is in the snapshot and not in
\* locallyDeletedTaskIds holds the remote record if remote updated_at is
\* greater than the local one, and the local record it held otherwise.
LastWriteWins ==
    \A i \in DOMAIN merges :
        merges[i].pc = "final" =>
            \A x \in IdsOf(merges[i].cloudTasks) \cap IdsOf(merges[i].localTasks) :
                LET c == LocalOf(merges[i].cloudTasks, x)
                    l == LocalOf(merges[i].localTasks, x)
                IN x \notin locallyDeletedTaskIds =>
                      local[x] = IF c.updated_at > l.updated_at THEN c ELSE l

\* one merge has replaced a record by a newer remote one and kept another
\* against a different remote record with the same updated_at
LastWriteWinsWitness ==
    \E i \in DOMAIN merges : \E x, y \in TaskIds :
        LET cx == LocalOf(merges[i].cloudTasks, x)
            lx == LocalOf(merges[i].localTasks, x)
            cy == LocalOf(merges[i].cloudTasks, y)
            ly == LocalOf(merges[i].localTasks, y)
        IN /\ merges[i].pc = "final"
           /\ locallyDeletedTaskIds = {}
           /\ lx # NoTask /\ cx # NoTask /\ cx.updated_at > lx.updated_at
           /\ local[x] = cx
           /\ ly # NoTask /\ cy # NoTask /\ cy.updated_at = ly.updated_at
           /\ cy # ly /\ local[y] = ly

TasksSynced == \E k \in DOMAIN emitted : emitted[k].name = EVENTS.TASKS_SYNCED

\* C6: when a merge that ran alone has returned, running mergeCloudTasks
\* again with the same snapshot and the same locallyDeletedTaskIds leaves
\* the local store as it is.
MergeIdempotent ==
    TasksSynced /\ merges = <<>> =>
        MergeCloudTasks(local, StoreValues(remote), locallyDeletedTaskIds) = local

\* a merge of a two-record snapshot, one of them tombstoned, has returned
\* and left a remote record in the local store
MergeIdempotentWitness ==
    /\ TasksSynced /\ merges = <<>>
    /\ Len(StoreValues(remote)) = 2
    /\ \E x \in TaskIds : x \in locallyDeletedTaskIds /\ local[x] # remote[x]
    /\ \E x \in TaskIds : x \notin locallyDeletedTaskIds /\ local[x] = remote[x]

PendingSave(x) ==
    \E k \in DOMAIN queue : queue[k].type = "save" /\ queue[k].taskId = x

\* C7: no step of mergeCloudTasks deletes from the local store a record for
\* which a save is in the queue.
PendingSaveKept ==
    [][\A i \in DOMAIN merges : MergeResume(i) =>
          \A x \in TaskIds :
              local[x] # NoTask /\ local'[x] = NoTask => ~PendingSave(x)]_vars

\* a delete of x is in the queue, or DB.removeTask(x) has deleted the record
\* and has not returned
PendingDelete(x) ==
    \/ \E k \in DOMAIN queue : queue[k].type = "delete" /\ queue[k].taskId = x
    \/ \E k \in DOMAIN calls : calls[k].fn = "removeTask" /\ calls[k].taskId = x

UpdatedAtMonotone ==
    [][\A x \in TaskIds :
          local[x] # NoTask /\ local'[x] # NoTask =>
              local'[x].updated_at >= local[x].updated_at]_vars

\* C11: a DB.saveTask / DB.removeTask call whose promise is fulfilled has had
\* its operation added to syncQueue: it holds the key the store assigned.
EnqueueFailureSurfaced ==
    \A k \in DOMAIN settled :
        settled[k].how = "fulfilled" => settled[k].key \in 1..(nextId - 1)

\* C12: while the engine is offline no remote call is issued for an entry
\* enqueued since it went offline and every such entry stays in the queue;
\* the step in which the engine goes from offline to online starts exactly
\* one pass, whose snapshot holds all these entries in ascending key order.
OfflineReplayedOnReconnect ==
    /\ [](~isOnline => /\ enqueuedOffline \cap inflight = {}
                       /\ enqueuedOffline \subseteq Range(Keys(queue)))
    /\ [][~isOnline /\ isOnline' /\ enqueuedOffline # {} =>
             /\ Len(passes') = Len(passes) + 1
             /\ LET p == passes'[Len(passes')]
                IN /\ p.pc = "getAllOperations"
                   /\ enqueuedOffline \subseteq Range(Keys(p.snapshot))
                   /\ \A k \in 1..(Len(p.snapshot) - 1) :
                         p.snapshot[k].id < p.snapshot[k + 1].id]_vars

ReplayEvents == {EVENTS.SYNC_STARTED, EVENTS.SYNC_COMPLETED, EVENTS.SYNC_ERROR}

\* C13: a call of processQueue made while isOnline is false, or while the
\* guard isSyncing is set, leaves the queue, the tombstone set, the guard,
\* the suspended passes, the unanswered remote calls and the remote as they
\* are and dispatches none of sync:started, sync:completed, sync:error.
ReplayAttemptNoOp ==
    [][(isSyncing /\ CallsProcessQueue) \/ (~isOnline /\ CallProcessQueue) =>
          /\ queue' = queue /\ locallyDeletedTaskIds' = locallyDeletedTaskIds
          /\ isSyncing' = isSyncing /\ passes' = passes
          /\ inflight' = inflight /\ remote' = remote
          /\ \A k \in DOMAIN emitted' : emitted'[k].name \notin ReplayEvents]_vars

\* queueOperation has just called processQueue while online and during a
\* pass: its own entry is in no pass's snapshot and nothing was dispatched
ReplayAttemptNoOpWitness ==
    /\ isSyncing /\ isOnline /\ emitted = <<>>
    /\ Len(settled) = 1 /\ settled[1].how = "fulfilled"
    /\ \E i \in DOMAIN passes : passes[i].pc = "remote"
    /\ \A i \in DOMAIN passes :
          settled[1].key \notin Range(Keys(passes[i].snapshot))

\* the entries of q with their keys
EntryOf(q, key) == CHOOSE o \in Range(q) : o.id = key

\* C14: a step removes an entry from the queue only if it is the step in
\* which the remote confirms the call issued for that entry: the call was
\* unanswered, the platform has a link, and the remote then holds the
\* entry's record (Save) or no record of its id (Delete).
RemovedOnlyWhenConfirmed ==
    [][\A key \in Range(Keys(queue)) \ Range(Keys(queue')) :
          LET o == EntryOf(queue, key)
          IN /\ key \in inflight /\ key \notin inflight'
             /\ navOnline
             /\ remote'[o.taskId] = o.task
             /\ \E i \in DOMAIN passes :
                   /\ passes[i].pc = "remote" /\ passes[i].ops[passes[i].idx] = o
                   /\ passes'[i].pc = "removeOperation"]_vars

\* a Delete has been confirmed and removed, an earlier entry whose call was
\* rejected is still queued, and the engine has gone offline since
RemovedOnlyWhenConfirmedWitness ==
    /\ ~isOnline
    /\ \E i \in DOMAIN passes :
          LET p == passes[i]
          IN /\ p.pc = "removeOperation" /\ p.idx = 2
             /\ p.ops[2].type = "delete"
             /\ remote[p.ops[2].taskId] = NoTask
             /\ p.failed = {p.ops[1].id}
             /\ queue = <<p.ops[1]>>

\* C15: as long as a Delete of an id is in the queue, the id is in
\* locallyDeletedTaskIds (every entry of the queue was enqueued by this
\* process).
TombstoneWhilePending ==
    \A k \in DOMAIN queue :
        queue[k].type = "delete" => queue[k].taskId \in locallyDeletedTaskIds


\* the status-changed events of a dispatch
StatusEvents(ev) == SelectSeq(ev, LAMBDA e : e.name = EVENTS.STATUS_CHANGED)

\* C16: status-changed is published exactly once per change of the network
\* state: an event never carries the value the last one carried, and every
\* step that changes isOnline publishes one event, with the new value.
OncePerChange ==
    [][/\ \A k \in DOMAIN StatusEvents(emitted') :
             published # <<StatusEvents(emitted')[k].arg>>
       /\ isOnline' # isOnline =>
             StatusEvents(emitted') = <<StatusChanged(isOnline')>>]_vars


\* C17: SyncEngine.init always returns, whether or not the remote ever
\* answers the startup fetch.
InitReturns == <>(initPc = "returned")

\* init has returned while the startup fetch is still unanswered
InitReturnsWitness ==
    /\ initPc = "returned"
    /\ startupSync.pc = "once"

\* C18: once the timeout of the startup fetch has fired with the fetch still
\* unanswered, the attempt is abandoned: no merge is started from a snapshot
\* that arrives later, the local store is left alone and no tasks-synced is
\* published by the run.
LateFetchAbandoned ==
    [][/\ startupSync.timer = "fired" /\ startupSync.pc = "once" =>
             startupSync'.pc # "merge"
       /\ startupSync.late => local' = local /\ ~TasksSynced']_vars

\* the snapshot arrived after the timeout, was merged into the local store,
\* and tasks-synced is published
LateFetchMerged ==
    /\ startupSync.late
    /\ startupSync.pc = "done"
    /\ TasksSynced
    /\ \E x \in TaskIds : local[x] # NoTask /\ local[x].by = "other"


\* the keys of q grow from front to back
KeysIncrease(q) == \A j, k \in DOMAIN q : j < k => q[j].id < q[k].id

\* C19: after any sequence of addOperation, removeOperation and clear,
\* getAllOperations returns the entries enqueued with success and neither
\* removed nor cleared, in the order of their enqueueing; keys are unique,
\* grow in that order and are never handed out twice; getCount is the
\* length of that list.
QueueReflectsCalls ==
    /\ [](/\ KeysIncrease(GetAllOperations(queue))
          /\ Range(Keys(GetAllOperations(queue))) \subseteq issuedKeys
          /\ GetCount(queue) = Len(queue))
    /\ [][LET old == GetAllOperations(queue)
              new == GetAllOperations(queue')
              c == settled'[1]
          IN settled' # <<>> =>
               /\ c.fn = "addOperation" /\ c.how = "fulfilled" =>
                     /\ c.key \notin issuedKeys
                     /\ Len(new) = Len(old) + 1
                     /\ SubSeq(new, 1, Len(old)) = old
                     /\ new[Len(new)].id = c.key
               /\ c.fn = "addOperation" /\ c.how = "rejected" => new = old
               /\ c.fn = "removeOperation" =>
                     new = SelectSeq(old, LAMBDA o : o.id # c.key)
               /\ c.fn = "clear" => new = <<>>
               /\ c.fn \in {"saveTask", "removeTask"} => new = old]_vars

\* an entry was enqueued after the two before it had been removed or
\* cleared
QueueReflectsCallsWitness ==
    /\ issuedKeys = {1, 2, 3}
    /\ Keys(GetAllOperations(queue)) = <<3>>
    /\ settled # <<>>
    /\ settled[1].fn = "addOperation" /\ settled[1].how = "fulfilled"


\* the remote call of the entry with key k is confirmed in this step
Confirmed(k) ==
    /\ Len(passes') = Len(passes)
    /\ \E i \in DOMAIN passes :
        /\ passes[i].pc = "remote"
        /\ passes'[i].pc = "removeOperation"
        /\ passes[i].ops[passes[i].idx].id = k

\* C20: the payload of a queued Save is the record as it was when it was
\* enqueued: the entry holds the object as passed at that moment (a Delete
\* holds none), no later step changes an entry while it is in the queue,
\* whatever the handlers do to the record, and the write to the remote
\* carries the payload of the entry.
PayloadFrozen ==
    [][/\ \A j \in DOMAIN queue' :
             queue'[j].id \notin Range(Keys(queue)) =>
                 \E i \in DOMAIN calls :
                     /\ calls'[i].key = queue'[j].id
                     /\ queue'[j].taskId = calls[i].taskId
                     /\ queue'[j].task =
                           IF queue'[j].type = "save" THEN calls[i].task
                           ELSE NoTask
       /\ \A k \in DOMAIN queue : \A j \in DOMAIN queue' :
             queue'[j].id = queue[k].id => queue'[j] = queue[k]
       /\ \A k \in DOMAIN queue :
             Confirmed(queue[k].id) /\ queue[k].type = "save" =>
                 remote'[queue[k].taskId] = queue[k].task]_vars

\* the record was saved again after its first Save had been enqueued, and
\* the first entry has written the older payload to the remote
PayloadFrozenWitness ==
    \E x \in TaskIds :
        /\ local[x] # NoTask /\ remote[x] # NoTask
        /\ remote[x].updated_at < local[x].updated_at
        /\ \E i \in DOMAIN passes :
              /\ passes[i].pc = "removeOperation"
              /\ Len(passes[i].snapshot) = 2
              /\ passes[i].idx = 1
              /\ passes[i].snapshot[1].task = remote[x]
              /\ passes[i].snapshot[2].task = local[x]


\* the remote call of the entry with key k is rejected in this step
Rejected(k) ==
    /\ k \in inflight
    /\ k \notin inflight'
    /\ k \in Range(Keys(queue'))

\* C21: when a remote save or delete of a pass fails, sync:error is
\* published for it and the entry stays in the queue.
RemoteFailurePublished ==
    [][\A k \in inflight : Rejected(k) =>
          /\ \E e \in Range(emitted') : e.name = EVENTS.SYNC_ERROR
          /\ EntryOf(queue', k) = EntryOf(queue, k)]_vars

\* the loop of pass i ends in this step and getCount is issued
CountIssued(i) ==
    /\ i \in DOMAIN passes /\ i \in DOMAIN passes'
    /\ passes[i].pc \in {"remote", "removeOperation"}
    /\ passes'[i].pc = "getCount"

\* pass i publishes sync:completed in this step
Completes(i) ==
    /\ i \in DOMAIN passes
    /\ passes[i].pc = "getCount"
    /\ passes' = RemoveAt(passes, i)

\* C22: the count of sync:completed is the number of entries of syncQueue.
\* getCount lists the store as it is when the loop has ended: the entries
\* of the snapshot whose call failed and the entries enqueued since the
\* snapshot; the event is dispatched in the run that receives the answer,
\* with that number.  A pass that finds the queue empty publishes 0.
CountIsQueueLength ==
    [][/\ \A i \in DOMAIN passes : CountIssued(i) =>
             LET p == passes[i]
                 failed == IF p.pc = "remote" /\ Rejected(p.ops[p.idx].id)
                           THEN p.failed \cup {p.ops[p.idx].id} ELSE p.failed
                 since == {k \in Range(Keys(queue')) :
                              k \notin Range(Keys(p.snapshot))}
             IN passes'[i].remaining = Len(queue')
                /\ Len(queue') = Cardinality(failed) + Cardinality(since)
       /\ \A i \in DOMAIN passes : Completes(i) =>
             emitted' = <<Event(EVENTS.SYNC_COMPLETED, passes[i].remaining)>>
       /\ \A i \in DOMAIN passes :
             passes[i].pc = "getAllOperations" /\ passes' = RemoveAt(passes, i)
                /\ passes[i].ops = <<>> =>
                   emitted' = <<Event(EVENTS.SYNC_COMPLETED, 0)>>]_vars

\* a device that has been online all along publishes a count of 2: the
\* entry the pass failed to send and one enqueued while the pass ran
CountIsQueueLengthWitness ==
    /\ emitted = <<Event(EVENTS.SYNC_COMPLETED, 2)>>
    /\ Len(queue) = 2
    /\ isOnline /\ published = <<>>
    /\ calls = <<>>


\* the network state is Online and no handler is running
OnlineAndIdle == isOnline /\ navOnline /\ calls = <<>>

\* a step in which no remote call is rejected
Quiet == \A k \in inflight : ~Rejected(k)

\* C23: once the network state stays Online, no remote call is rejected and
\* no handler or network event occurs any more, every operation enqueued is
\* eventually applied to the remote and removed: the queue gets and stays
\* empty.
EventuallyDelivered ==
    <>[]OnlineAndIdle /\ <>[][Quiet]_vars => <>[](queue = <<>>)


\* C24: operations on one record reach the remote in the order of
\* enqueueing, across passes too: when every queued operation has been
\* confirmed, each record of the remote is what the last operation enqueued
\* for it made of it, which is what the local store holds when no handler
\* has run since.
AppliedInEnqueueOrder ==
    queue = <<>> /\ inflight = {} /\ calls = <<>> /\ merges = <<>>
        => remote = local


\* the ids for which the queue holds a Delete
PendingDeletes ==
    {queue[k].taskId : k \in {k2 \in DOMAIN queue : queue[k2].type = "delete"}}

\* C25: after a restart the tombstone set is empty while the queue still
\* holds its entries, and a merge that has run to its end has written to
\* the local store every record of its snapshot that the local store did
\* not hold, the records with a pending Delete included.
RestartResurrects ==
    /\ locallyDeletedTaskIds = {}
    /\ \A i \in DOMAIN merges : merges[i].pc = "final" =>
          \A x \in PendingDeletes :
              /\ x \in IdsOf(merges[i].cloudTasks)
              /\ x \notin IdsOf(merges[i].localTasks)
              => local[x] = LocalOf(merges[i].cloudTasks, x)

\* the queue holds Delete(A) and the merge has put record A back
RestartResurrectsWitness ==
    /\ locallyDeletedTaskIds = {}
    /\ \E k \in DOMAIN queue : queue[k].type = "delete" /\ queue[k].taskId = "A"
    /\ \E i \in DOMAIN merges :
          /\ merges[i].pc = "final"
          /\ "A" \notin IdsOf(merges[i].localTasks)
          /\ "A" \in IdsOf(merges[i].cloudTasks)
    /\ local["A"] # NoTask


\* C26: when a merge that ran alone has gone through its loops, every record
\* the local store held when the merge read it and whose id is not in the
\* snapshot is gone from the local store, and the local store holds no id
\* that is not in the snapshot.
AbsentFromSnapshotDeleted ==
    \A i \in DOMAIN merges :
        merges[i].pc = "final" =>
            /\ \A x \in IdsOf(merges[i].localTasks) \ IdsOf(merges[i].cloudTasks) :
                  local[x] = NoTask
            /\ IdsOf(StoreValues(local)) \subseteq IdsOf(merges[i].cloudTasks)

\* the local store held two records, the snapshot holds one of them: the
\* other is gone
AbsentFromSnapshotDeletedWitness ==
    \E i \in DOMAIN merges : \E x, y \in TaskIds :
        /\ merges[i].pc = "final"
        /\ IdsOf(merges[i].localTasks) = {x, y} /\ x # y
        /\ IdsOf(merges[i].cloudTasks) = {y}
        /\ local[x] = NoTask /\ local[y] # NoTask

\* C27: when a merge that ran alone has gone through its loops, the local
\* store holds, as the snapshot has it, every record of the snapshot whose
\* id was not in the local store when the merge read it and is not in
\* locallyDeletedTaskIds.
NewRemoteWritten ==
    \A i \in DOMAIN merges :
        merges[i].pc = "final" =>
            \A x \in IdsOf(merges[i].cloudTasks) \ IdsOf(merges[i].localTasks) :
                x \notin locallyDeletedTaskIds =>
                    local[x] = LocalOf(merges[i].cloudTasks, x)

\* the local store was empty and nothing is tombstoned: it holds the two
\* records of the snapshot, one of them written by another user
NewRemoteWrittenWitness ==
    \E i \in DOMAIN merges :
        /\ merges[i].pc = "final"
        /\ merges[i].localTasks = <<>>
        /\ Len(merges[i].cloudTasks) = 2
        /\ locallyDeletedTaskIds = {}
        /\ local = remote
        /\ \E x \in TaskIds : local[x].by = "other"

\* C28: the ids a merge writes to the local store and the ids it deletes
\* from it are disjoint, and every request a step of the merge makes is for
\* an id of one set that is not in the other.
WritesAndDeletesDisjoint ==
    [][\A i \in DOMAIN merges : MergeResume(i) =>
          LET m == merges[i]
              st == MergeStep(m, locallyDeletedTaskIds)
          IN /\ Upserted(m, locallyDeletedTaskIds) \cap Deleted(m) = {}
             /\ st.req = "put" =>
                   /\ st.task.id \in Upserted(m, locallyDeletedTaskIds)
                   /\ st.task.id \notin Deleted(m)
                   /\ local'[st.task.id] = st.task
             /\ st.req = "delete" =>
                   /\ st.task.id \in Deleted(m)
                   /\ st.task.id \notin Upserted(m, locallyDeletedTaskIds)
                   /\ local'[st.task.id] = NoTask]_vars

\* a merge that has written one record and deleted another
WritesAndDeletesDisjointWitness ==
    \E i \in DOMAIN merges : \E x, y \in TaskIds :
        /\ merges[i].pc = "final"
        /\ Upserted(merges[i], locallyDeletedTaskIds) = {x}
        /\ Deleted(merges[i]) = {y}
        /\ local[x] = LocalOf(merges[i].cloudTasks, x)
        /\ LocalOf(merges[i].localTasks, y) # NoTask /\ local[y] = NoTask


\* C29: when navigator.onLine has changed and no online/offline event was
\* delivered, the tick of checkConnection sets isOnline to the flag and
\* publishes one status-changed with it; for a change to online it calls
\* processQueue, which starts a pass unless one is running, and for a change
\* to offline it starts none.
PollNotices ==
    [][CheckConnection =>
          /\ isOnline' = navOnline
          /\ StatusEvents(emitted') = <<StatusChanged(navOnline)>>
          /\ published' = <<StatusChanged(navOnline).arg>>
          /\ IF navOnline /\ ~isSyncing /\ firebaseDb
             THEN /\ Len(passes') = Len(passes) + 1
                  /\ passes'[Len(passes')].pc = "getAllOperations"
                  /\ passes'[Len(passes')].snapshot = queue
                  /\ isSyncing'
             ELSE passes' = passes /\ isSyncing' = isSyncing]_vars

\* the tick has noticed the change to online and started a pass over the
\* stored queue
PollNoticesWitness ==
    /\ isOnline /\ navOnline /\ published = <<StatusChanged(TRUE).arg>>
    /\ emitted = <<StatusChanged(TRUE), Event(EVENTS.SYNC_STARTED, 0)>>
    /\ \E i \in DOMAIN passes :
          passes[i].pc = "getAllOperations" /\ Len(passes[i].snapshot) = 2


SyncCompleted ==
    \E k \in DOMAIN emitted : emitted[k].name = EVENTS.SYNC_COMPLETED

Since(p, q) == Range(Keys(q)) \ Range(Keys(p.snapshot))

\* C31: a pass reads the queue once, when it starts: it issues remote calls
\* for entries of its snapshot only; queueOperation's call of processQueue
\* for an entry enqueued since, made while the pass is between taking and
\* clearing the guard, starts no pass; and every entry enqueued since is in
\* the queue when the loop of the pass ends.
SnapshotReadOnce ==
    /\ [](\A i \in ReplayingPasses :
             /\ passes[i].ops = GetAllOperations(passes[i].snapshot)
             /\ Range(passes[i].issued) \subseteq Range(Keys(passes[i].snapshot))
             /\ inflight \cap Since(passes[i], queue) = {})
    /\ [][/\ \A c \in DOMAIN calls : \A i \in ReplayingPasses :
                QueueOperationDone(c) /\ calls[c].key \in Since(passes[i], queue)
                   => passes' = passes /\ emitted' = <<>>
          /\ \A i \in DOMAIN passes :
                Replaying(passes[i]) =>
                   Since(passes[i], queue) \subseteq Range(Keys(queue'))]_vars

\* the pass has had its one entry confirmed and removed; the entry enqueued
\* while it ran is the only one in the queue, and the call that enqueued it
\* has returned
SnapshotReadOnceWitness ==
    /\ isSyncing /\ isOnline /\ calls = <<>>
    /\ \E i \in DOMAIN passes :
          /\ passes[i].pc = "removeOperation"
          /\ Len(passes[i].snapshot) = 1
          /\ passes[i].idx = 1
          /\ Since(passes[i], queue) = Range(Keys(queue))
    /\ Len(queue) = 1


\* the number of events of a dispatch that have one of the names
Count(ev, names) == Len(SelectSeq(ev, LAMBDA e : e.name \in names))

TerminalEvents == {EVENTS.SYNC_COMPLETED, EVENTS.SYNC_ERROR}

\* C32: a call of processQueue that passes the three guards starts a run
\* and publishes sync:started once; a run publishes nothing until it ends,
\* and the step in which it ends, on an empty queue, after the count or in
\* the outer catch, publishes exactly one of sync:completed and sync:error;
\* every run ends.
OneStartOneEnd ==
    /\ [][/\ Len(passes') - Len(passes) \in {-1, 0, 1}
          /\ Count(emitted', {EVENTS.SYNC_STARTED})
                = IF Len(passes') > Len(passes) THEN 1 ELSE 0
          /\ Count(emitted', TerminalEvents)
                = IF Len(passes') < Len(passes) THEN 1 ELSE 0
          /\ CallsProcessQueue /\ isOnline' /\ ~isSyncing /\ firebaseDb
                => Len(passes') = Len(passes) + 1]_vars
    /\ (passes # <<>>) ~> (Count(emitted, TerminalEvents) = 1)

\* the read of the queue has failed: the only run has ended with sync:error
OneStartOneEndWitness ==
    /\ emitted = <<Event(EVENTS.SYNC_ERROR, 0)>>
    /\ passes = <<>> /\ ~isSyncing /\ queue # <<>>


\* C33: sync:started and the terminal events alternate: a run that has
\* published sync:started and not yet its sync:completed or sync:error is
\* the only one, so no step publishes sync:started while there is one.
EventsAlternate ==
    [][Count(emitted', {EVENTS.SYNC_STARTED}) > 0 => passes = <<>>]_vars


\* run i leaves the span in which it holds the guard: its loop ends, it
\* finds the queue empty, or a read it awaits is rejected
LeavesReplaying(i) ==
    \/ LoopEnds(i)
    \/ /\ i \in DOMAIN passes
       /\ passes' = RemoveAt(passes, i)
       /\ \/ passes[i].pc = "getAllOperations"
          \/ Count(emitted', {EVENTS.SYNC_ERROR}) > 0

\* C34: every step in which a run ends its loop, returns on an empty queue
\* or reaches the outer catch leaves isSyncing false, and whenever
\* isSyncing is true it is false again later: no call of processQueue is
\* turned away by the guard for ever.
ReturnsToIdle ==
    /\ [][\A i \in DOMAIN passes : LeavesReplaying(i) => ~isSyncing']_vars
    /\ isSyncing ~> ~isSyncing

\* a pass has sent the one stored entry and ended: the guard is clear
ReturnsToIdleWitness ==
    /\ ~isSyncing /\ passes = <<>> /\ inflight = {}
    /\ emitted = <<Event(EVENTS.SYNC_COMPLETED, 0)>>
    /\ queue = <<>> /\ nextId = 2


\* C35: every id in locallyDeletedTaskIds has a delete in the queue, or a
\* DB.removeTask call for it that has not returned.
TombstoneHasDelete == \A x \in locallyDeletedTaskIds : PendingDelete(x)


\* C36: while firebaseDb is null no run of processQueue is suspended and
\* the guard is false, and a call of processQueue made then removes no
\* queue entry, starts no run, issues no remote call, leaves the guard
\* false and publishes neither sync:started nor sync:completed.
NoRemoteNoOp ==
    /\ [](~firebaseDb => ~isSyncing /\ passes = <<>> /\ inflight = {})
    /\ [][~firebaseDb /\ CallsProcessQueue =>
             /\ queue' = queue /\ remote' = remote
             /\ passes' = passes /\ inflight' = inflight
             /\ ~isSyncing'
             /\ Count(emitted', {EVENTS.SYNC_STARTED,
                                 EVENTS.SYNC_COMPLETED}) = 0]_vars

\* the online listener has just called processQueue over a queue that
\* holds entries, with firebaseDb null: it dispatched the status event
NoRemoteNoOpWitness ==
    /\ ~firebaseDb /\ isOnline /\ queue # <<>>
    /\ emitted = <<StatusChanged(TRUE)>>
    /\ ~isSyncing /\ passes = <<>>


\* the tasks store that getAllTasks returned ts from
StoreOf(ts) == [x \in TaskIds |-> LocalOf(ts, x)]

MergeFlags == <<currentMergeState, savedMergeState>>

\* the step ends the suspended call i of fn with the value true
Succeeds(fn, i) ==
    /\ i \in DOMAIN storageCalls
    /\ storageCalls[i].fn = fn
    /\ storageCalls' = RemoveAt(storageCalls, i)
    /\ returned' = "true"

\* the step is one of a splitStorages call: it suspends, goes on or ends
SplitStep ==
    \/ /\ Len(storageCalls') = Len(storageCalls) + 1
       /\ storageCalls'[Len(storageCalls')].fn = "splitStorages"
    \/ \E i \in DOMAIN storageCalls :
          /\ storageCalls[i].fn = "splitStorages"
          /\ \/ Succeeds("splitStorages", i)
             \/ /\ Len(storageCalls') = Len(storageCalls)
                /\ storageCalls'[i] # storageCalls[i]

StoragesIsolated ==
    [][/\ (appPc = "open" /\ appPc' = "ready"
           /\ GetMergeState(currentMergeState) = MERGE_STATE_SPLIT)
             => storage2' = storage2
       /\ (appPc = "ready" /\ appPc' = "ready" /\ storageCalls = <<>>
           /\ storageCalls' = <<>>) =>
             /\ currentStoreName = "tasks_storage1" => storage2' = storage2
             /\ currentStoreName = "tasks_storage2" => storage1' = storage1]_vars

====
